--------------------------- MODULE LinkCacheProofs ---------------------------
(***************************************************************************)
(* Proofs about LinkCache, for every set of callers, files and types, any   *)
(* tree of wrapping drivers and any number of links.                        *)
(***************************************************************************)
EXTENDS LinkCache, FiniteSetTheorems, TLAPS

\* Frames that use a link: they may hold a reference.
Users == {"held", "close", "swap"}

\* How the state of a frame, and of a link, hangs together, given the links made.
FrameOK(f, x, made) ==
    /\ x \in Calls
    /\ x.pc \in Linked => x.link \in made
    /\ x.pc \notin Linked => x.link = None
    /\ x.counts => x.pc \in Users
    /\ x.pc = "swap" => x.seen >= 0
    /\ x.pc = "nested" => Below[File(f)] # None
    /\ x.pc = "evict" => x.map \in Links
LinkOK(l, y, made) ==
    /\ y \in LinkStates
    /\ y.below # None => y.below \in made
    /\ l \notin made => y = Unmade

CallsOK == call \in [Frames -> Calls] /\ \A f \in Frames : FrameOK(f, call[f], Made)
LinksOK == link \in [Links -> LinkStates] /\ \A l \in Links : LinkOK(l, link[l], Made)
CacheOK ==
    /\ top \in [Files -> Links \cup {None}]
    /\ inner \in [Links -> [Types -> Links \cup {None}]]
    /\ \A m \in Links, t \in Types : inner[m][t] # None => inner[m][t] \in Made
    /\ flight \in [Slots -> Frames \cup {None}]
Shape == CallsOK /\ LinksOK /\ CacheOK

LEMMA Constants ==
    /\ None \notin Links /\ None \notin Files /\ None \notin Frames
    /\ \A f \in Frames : /\ File(f) \in Files /\ Type(f) \in Types /\ Slot(f) \in Slots
                         /\ Below[File(f)] \in Files \cup {None}
                         /\ Below[File(f)] # None => Nested(f) \in Frames
BY LinkAssumption DEF Links, Frames, File, Type, Slot, Slots, Nested

LEMMA ShapeTypeOK == Shape => TypeOK
BY DEF Shape, CallsOK, LinksOK, CacheOK, FrameOK, LinkOK, TypeOK

LEMMA InitShape == Init => Shape
  <1> SUFFICES ASSUME Init PROVE Shape
    OBVIOUS
  <1> USE Constants DEF Init
  <1>1. Idle \in Calls /\ Unmade \in LinkStates
    BY DEF Idle, In, Unmade, Calls, LinkStates, Pcs
  <1>2. \A f \in Frames : FrameOK(f, Idle, Made)
    BY <1>1 DEF FrameOK, Idle, In, Linked, Users
  <1>3. \A l \in Links : LinkOK(l, Unmade, Made)
    BY <1>1 DEF LinkOK, Unmade
  <1> QED BY <1>1, <1>2, <1>3 DEF Shape, CallsOK, LinksOK, CacheOK

-----------------------------------------------------------------------------
(* What a step does to one frame or to one link.                            *)

LEMMA InFields ==
    ASSUME NEW pc, NEW l, NEW c
    PROVE  /\ In(pc, l, c).pc = pc /\ In(pc, l, c).link = l /\ In(pc, l, c).counts = c
           /\ pc \in Pcs /\ l \in Links \cup {None} /\ c \in BOOLEAN => In(pc, l, c) \in Calls
BY DEF In, Calls

LEMMA InFree == ASSUME NEW pc, NEW l PROVE In(pc, l, FALSE).pc = pc /\ ~In(pc, l, FALSE).counts
BY DEF In
LEMMA InLink == ASSUME NEW pc, NEW l PROVE In(pc, l, FALSE).pc = pc /\ In(pc, l, FALSE).link = l
BY DEF In
LEMMA InStays ==
    ASSUME NEW pc, NEW l, NEW c, ~c PROVE In(pc, l, c).pc = pc /\ ~In(pc, l, c).counts
BY DEF In

\* A frame that only goes on.
Fits(f, pc, l, c, made) ==
    /\ pc \in Pcs \ {"evict", "swap"} /\ c \in BOOLEAN
    /\ pc \in Linked => l \in made
    /\ pc \notin Linked => l = None
    /\ c => pc \in Users
    /\ pc = "nested" => Below[File(f)] # None

LEMMA FitsOK ==
    ASSUME NEW f, NEW pc, NEW l, NEW c, NEW made \in SUBSET Links, Fits(f, pc, l, c, made)
    PROVE  FrameOK(f, In(pc, l, c), made)
  <1>1. l \in Links \cup {None}
    BY DEF Fits
  <1> QED BY <1>1, InFields DEF Fits, FrameOK

LEMMA EvictOK ==
    \A f, l, m : l \in Made /\ m \in Links
                    => FrameOK(f, [In("evict", l, FALSE) EXCEPT !.map = m], Made)
  <1> SUFFICES ASSUME NEW f, NEW l \in Made, NEW m \in Links
               PROVE  FrameOK(f, [In("evict", l, FALSE) EXCEPT !.map = m], Made)
    OBVIOUS
  <1> DEFINE i == In("evict", l, FALSE)
  <1>1. "evict" \in Pcs /\ FALSE \in BOOLEAN /\ l \in Links
    BY DEF Pcs, Made
  <1>2. i \in Calls /\ i.pc = "evict" /\ i.link = l /\ ~i.counts
    BY <1>1 DEF In, Calls
  <1> HIDE DEF i
  <1> DEFINE e == [i EXCEPT !.map = m]
  <1>3. e \in Calls /\ e.pc = "evict" /\ e.link = l /\ e.map = m /\ (e.counts = i.counts)
    BY <1>2 DEF Calls
  <1> HIDE DEF e
  <1>4. FrameOK(f, e, Made)
    BY <1>2, <1>3 DEF FrameOK, Linked, Users
  <1> QED BY <1>4 DEF e, i

LEMMA SwapOK ==
    \A f, l, c, n : l \in Made /\ c \in BOOLEAN /\ n \in Nat
                    => FrameOK(f, [In("swap", l, c) EXCEPT !.seen = n], Made)
  <1> SUFFICES ASSUME NEW f, NEW l \in Made, NEW c \in BOOLEAN, NEW n \in Nat
               PROVE  FrameOK(f, [In("swap", l, c) EXCEPT !.seen = n], Made)
    OBVIOUS
  <1> DEFINE i == In("swap", l, c)
  <1>1. "swap" \in Pcs /\ l \in Links
    BY DEF Pcs, Made
  <1>2. i \in Calls /\ i.pc = "swap" /\ i.link = l /\ i.counts = c
    BY <1>1, InFields
  <1> HIDE DEF i
  <1> DEFINE e == [i EXCEPT !.seen = n]
  <1>3. e \in Calls /\ e.pc = "swap" /\ e.link = l /\ e.seen = n
    BY <1>2 DEF Calls
  <1> HIDE DEF e
  <1>4. FrameOK(f, e, Made)
    BY <1>3 DEF FrameOK, Linked, Users
  <1> QED BY <1>4 DEF e, i

LEMMA FrameMono ==
    \A f, x : \A a, b : FrameOK(f, x, a) /\ a \subseteq b => FrameOK(f, x, b)
BY DEF FrameOK

LEMMA OneFrame ==
    \A f \in Frames : \A r :
        FrameOK(f, r, Made) /\ CallsOK /\ call' = [call EXCEPT ![f] = r] /\ Made \subseteq Made'
            => CallsOK'
  <1> SUFFICES ASSUME NEW f \in Frames, NEW r, FrameOK(f, r, Made), CallsOK,
                      call' = [call EXCEPT ![f] = r], Made \subseteq Made'
               PROVE  CallsOK'
    OBVIOUS
  <1>1. r \in Calls
    BY DEF FrameOK
  <1>2. \A g \in Frames : FrameOK(g, call'[g], Made)
    BY DEF CallsOK
  <1>3. \A g \in Frames : FrameOK(g, call'[g], Made')
    BY <1>2, FrameMono
  <1> QED BY <1>1, <1>3 DEF CallsOK

LEMMA Goes ==
    \A f \in Frames : \A pc, l, c :
        Fits(f, pc, l, c, Made) /\ CallsOK /\ call' = To(f, pc, l, c) /\ Made \subseteq Made' => CallsOK'
BY FitsOK, OneFrame DEF To, Made

LEMMA MadeSame == link' = link => Made' = Made
BY DEF Made

LEMMA LinksSame == link' = link /\ LinksOK => LinksOK'
BY MadeSame DEF LinksOK, LinkOK

LEMMA CacheSame ==
    UNCHANGED <<top, inner, flight>> /\ Made \subseteq Made' /\ CacheOK => CacheOK'
BY DEF CacheOK

LEMMA OneLink ==
    \A l \in Made : \A y :
        LinksOK /\ LinkOK(l, y, Made) /\ y.file # None /\ link' = [link EXCEPT ![l] = y]
            => LinksOK' /\ Made' = Made
  <1> SUFFICES ASSUME NEW l \in Made, NEW y, LinksOK, LinkOK(l, y, Made), y.file # None,
                      link' = [link EXCEPT ![l] = y]
               PROVE  LinksOK' /\ Made' = Made
    OBVIOUS
  <1>1. Made' = Made
    BY DEF Made, LinksOK
  <1>2. y \in LinkStates /\ l \in Links
    BY DEF LinkOK, Made
  <1> QED BY <1>1, <1>2 DEF LinksOK, LinkOK

LEMMA RefChange ==
    \A l \in Made : \A n \in Int :
        LinksOK /\ link' = [link EXCEPT ![l].ref = n] => LinksOK' /\ Made' = Made
  <1> SUFFICES ASSUME NEW l \in Made, NEW n \in Int, LinksOK, link' = [link EXCEPT ![l].ref = n]
               PROVE  LinksOK' /\ Made' = Made
    OBVIOUS
  <1> DEFINE y == [link[l] EXCEPT !.ref = n]
  <1>1. LinkOK(l, y, Made) /\ y.file # None
    BY DEF LinksOK, LinkOK, LinkStates, Made
  <1>2. link' = [link EXCEPT ![l] = y]
    BY DEF LinksOK, Made
  <1> HIDE DEF y
  <1> QED BY <1>1, <1>2, OneLink

LEMMA FrameFacts ==
    ASSUME NEW f \in Frames, Shape
    PROVE  /\ call[f] \in Calls /\ call[f].pc \in Pcs /\ call[f].counts \in BOOLEAN
           /\ FrameOK(f, call[f], Made)
           /\ call[f].pc \in Linked => /\ call[f].link \in Made /\ call[f].link \in Links
                                       /\ link[call[f].link] \in LinkStates
                                       /\ link[call[f].link].ref \in Int
BY DEF Shape, CallsOK, LinksOK, FrameOK, LinkOK, LinkStates, Calls, Made

-----------------------------------------------------------------------------
(* Every action keeps the shape.                                            *)

LEMMA AddReferenceShape ==
    ASSUME NEW f \in Frames, Shape, call[f].pc \in Linked, AddReference(f, "restore"),
           UNCHANGED <<top, inner, flight>>
    PROVE  Shape'
  <1> DEFINE l == call[f].link
  <1>1. l \in Made /\ l \in Links /\ link[l].ref \in Int
    BY FrameFacts
  <1>2. link' = [link EXCEPT ![l].ref = link[l].ref + 1]
    BY DEF AddReference
  <1>3. LinksOK' /\ Made' = Made
    <2> DEFINE n == link[l].ref + 1
    <2>1. n \in Int
      BY <1>1
    <2> HIDE DEF l, n
    <2> QED BY <1>1, <1>2, <2>1, RefChange DEF Shape, n
  <1>4. call' = To(f, "held", l, TRUE) \/ call' = To(f, "restore", l, FALSE)
    BY DEF AddReference
  <1>5. Fits(f, "held", l, TRUE, Made) /\ Fits(f, "restore", l, FALSE, Made)
    BY <1>1 DEF Fits, Pcs, Linked, Users
  <1> HIDE DEF l
  <1> QED BY <1>3, <1>4, <1>5, Goes, CacheSame DEF Shape

LEMMA LookupShape ==
    ASSUME NEW f \in Frames, Shape, Lookup(f) PROVE Shape'
  <1> DEFINE m == top[File(f)]
             l == IF m = None THEN None ELSE inner[m][Type(f)]
             e == [In("evict", l, FALSE) EXCEPT !.map = m]
  <1>1. m \in Links \cup {None} /\ l \in Made \cup {None} /\ (l # None => m # None)
    BY Constants DEF Shape, CacheOK
  <1>2. UNCHANGED <<link, top, inner, flight>> /\ Made' = Made
    BY MadeSame DEF Lookup
  <1>3. CASE call' = Again(f)
    <2>1. Fits(f, "flight", None, FALSE, Made)
      BY DEF Fits, Pcs, Linked, Users
    <2> QED BY <2>1, <1>2, <1>3, Goes, LinksSame, CacheSame DEF Again, Shape
  <1>4. CASE l # None /\ call' = [call EXCEPT ![f] = e]
    <2>1. FrameOK(f, e, Made)
      <3> HIDE DEF l, m
      <3> QED BY <1>1, <1>4, EvictOK
    <2> HIDE DEF e
    <2> QED BY <2>1, <1>2, <1>4, OneFrame, LinksSame, CacheSame DEF Shape
  <1>5. CASE l # None /\ call' = To(f, "hit", l, FALSE)
    <2>1. Fits(f, "hit", l, FALSE, Made)
      BY <1>1, <1>5 DEF Fits, Pcs, Linked, Users
    <2> HIDE DEF l
    <2> QED BY <2>1, <1>2, <1>5, Goes, LinksSame, CacheSame DEF Shape
  <1> QED BY <1>3, <1>4, <1>5 DEF Lookup

LEMMA EvictShape ==
    ASSUME NEW f \in Frames, Shape, Evict(f) PROVE Shape'
  <1>1. Fits(f, "flight", None, FALSE, Made)
    BY DEF Fits, Pcs, Linked, Users
  <1>2. CallsOK' /\ LinksOK' /\ Made' = Made
    BY <1>1, Goes, LinksSame, MadeSame DEF Evict, Again, Shape
  <1>3. call[f].map \in Links
    BY FrameFacts DEF FrameOK, Evict
  <1>4. CacheOK'
    BY <1>2, <1>3, Constants DEF Evict, Shape, CacheOK
  <1> QED BY <1>2, <1>4 DEF Shape

LEMMA StoreShape ==
    ASSUME NEW f \in Frames, Shape, Store(f) PROVE Shape'
  <1> DEFINE l == call[f].link
  <1>1. l \in Made /\ l \in Links /\ ~call[f].counts
    BY FrameFacts DEF Store, Linked, FrameOK, Users
  <1>2. Fits(f, "finish", l, call[f].counts, Made)
    BY <1>1, FrameFacts DEF Fits, Pcs, Linked, Users
  <1>3. CallsOK' /\ LinksOK' /\ Made' = Made
    BY <1>2, Goes, LinksSame, MadeSame DEF Store, At, Shape
  <1>4. CacheOK'
    BY <1>1, <1>3, Constants DEF Store, Shape, CacheOK
  <1> QED BY <1>3, <1>4 DEF Shape

LEMMA HitShape ==
    ASSUME NEW f \in Frames, Shape, Hit(f) PROVE Shape'
  <1>1. call[f].pc \in Linked /\ call[f].link \in Made
    BY FrameFacts DEF Hit, Linked
  <1>2. CASE call' = To(f, "held", call[f].link, FALSE) /\ link' = link
    <2>1. Fits(f, "held", call[f].link, FALSE, Made)
      BY <1>1 DEF Fits, Pcs, Linked, Users
    <2> QED BY <2>1, <1>2, Goes, LinksSame, MadeSame, CacheSame DEF Shape, Hit
  <1>3. CASE AddReference(f, "restore")
    BY <1>1, <1>3, AddReferenceShape DEF Hit
  <1> QED BY <1>2, <1>3 DEF Hit

LEMMA DoShape ==
    ASSUME NEW f \in Frames, Shape, Do(f) PROVE Shape'
  <1>1. call[f].link = None /\ ~call[f].counts /\ call[f].counts \in BOOLEAN
    BY FrameFacts DEF Do, Linked, Users, FrameOK
  <1>2. Fits(f, "wait", None, call[f].counts, Made) /\ Fits(f, "fetch", None, call[f].counts, Made)
    BY <1>1 DEF Fits, Pcs, Linked, Users
  <1>3. call' = At(f, "wait") \/ call' = At(f, "fetch")
    BY DEF Do
  <1>4. CallsOK' /\ LinksOK' /\ Made' = Made
    BY <1>1, <1>2, <1>3, Goes, LinksSame, MadeSame DEF Do, At, Shape
  <1>5. CacheOK'
    BY <1>4, Constants DEF Do, Shape, CacheOK
  <1> QED BY <1>4, <1>5 DEF Shape

LEMMA NestedFacts ==
    ASSUME NEW f \in Frames, Shape, call[f].pc = "nested"
    PROVE  Nested(f) \in Frames /\ (call[Nested(f)].pc # "nested" => Nested(f) # f)
BY FrameFacts, Constants DEF FrameOK

LEMMA FailedOK == \A f \in Frames : FrameOK(f, Failed(f), Made) /\ FrameOK(f, Idle, Made)
  <1> SUFFICES ASSUME NEW f \in Frames PROVE FrameOK(f, Failed(f), Made) /\ FrameOK(f, Idle, Made)
    OBVIOUS
  <1>1. Fits(f, "failed", None, FALSE, Made) /\ Fits(f, "idle", None, FALSE, Made)
    BY DEF Fits, Pcs, Linked, Users
  <1> QED BY <1>1, FitsOK DEF Failed, Idle, Made

LEMMA FetchFailsShape ==
    ASSUME NEW f \in Frames, Shape, FetchFails(f) PROVE Shape'
  <1>1. LinksOK' /\ Made' = Made
    BY LinksSame, MadeSame DEF FetchFails, Shape
  <1>2. CallsOK'
    <2>1. call' \in [Frames -> Calls]
      BY FailedOK DEF FetchFails, Shape, CallsOK, FrameOK
    <2>2. \A g \in Frames : call'[g] \in {Failed(g), Idle, call[g]}
      BY DEF FetchFails
    <2>3. \A g \in Frames : FrameOK(g, call'[g], Made)
      BY <2>2, FailedOK DEF Shape, CallsOK
    <2> QED BY <1>1, <2>1, <2>3 DEF CallsOK
  <1>3. CacheOK'
    BY <1>1, Constants DEF FetchFails, Shape, CacheOK
  <1> QED BY <1>1, <1>2, <1>3 DEF Shape

LEMMA FinishShape ==
    ASSUME NEW f \in Frames, Shape, Finish(f) PROVE Shape'
  <1> DEFINE l == call[f].link
             j == In("join", l, FALSE)
  <1>1. LinksOK' /\ Made' = Made
    BY LinksSame, MadeSame DEF Finish, Shape
  <1>2. l \in Made
    BY FrameFacts DEF Finish, Linked
  <1>3. \A g \in Frames : FrameOK(g, j, Made)
    <2> TAKE g \in Frames
    <2>1. Fits(g, "join", l, FALSE, Made)
      BY <1>2 DEF Fits, Pcs, Linked, Users
    <2> HIDE DEF l
    <2> QED BY <2>1, FitsOK DEF Made
  <1>4. CallsOK'
    <2>1. \A g \in Frames : call'[g] \in {j, call[g]}
      BY DEF Finish
    <2> HIDE DEF j
    <2>2. \A g \in Frames : FrameOK(g, call'[g], Made)
      BY <2>1, <1>3 DEF Shape, CallsOK
    <2>3. call' \in [Frames -> Calls]
      BY <2>2 DEF FrameOK, Finish
    <2> QED BY <1>1, <2>2, <2>3 DEF CallsOK
  <1>5. CacheOK'
    BY <1>1, Constants DEF Finish, Shape, CacheOK
  <1> QED BY <1>1, <1>4, <1>5 DEF Shape

\* The driver of f has a link: its own, or one on the link below.
LEMMA NewLink ==
    ASSUME NEW l \in Links, l \notin Made, NEW y \in LinkStates, y.file # None,
           y.below # None => y.below \in Made, LinksOK, link' = [link EXCEPT ![l] = y]
    PROVE  LinksOK' /\ Made' = Made \cup {l}
  <1>1. Made' = Made \cup {l}
    BY DEF Made, LinksOK
  <1>2. link' \in [Links -> LinkStates]
    BY DEF LinksOK
  <1>3. \A k \in Links : LinkOK(k, link'[k], Made')
    BY <1>1, <1>2 DEF LinksOK, LinkOK
  <1> QED BY <1>1, <1>2, <1>3 DEF LinksOK

LEMMA FetchOwnShape ==
    ASSUME NEW f \in Frames, Shape, FetchOwn(f) PROVE Shape'
  <1> PICK l \in Links, kind \in Kinds :
        /\ l \notin Made
        /\ link' = [link EXCEPT ![l] = [Unmade EXCEPT !.file = File(f), !.kind = kind]]
        /\ call' = To(f, "store", l, FALSE)
    BY DEF FetchOwn, IsNew
  <1> DEFINE y == [Unmade EXCEPT !.file = File(f), !.kind = kind]
  <1>1. y \in LinkStates /\ y.file # None /\ y.below = None
    <2>1. kind \in {"required", "plain", "expiring"}
      BY LinkAssumption
    <2>2. File(f) \in Files /\ File(f) # None
      BY Constants
    <2>3. Unmade \in LinkStates /\ Unmade.below = None
      BY DEF Unmade, LinkStates
    <2> QED BY <2>1, <2>2, <2>3 DEF LinkStates
  <1> HIDE DEF y
  <1>2. LinksOK' /\ Made' = Made \cup {l}
    BY <1>1, NewLink DEF Shape, y
  <1>3. CallsOK'
    <2>1. FrameOK(f, In("store", l, FALSE), Made')
      BY <1>2, FitsOK DEF Fits, Pcs, Linked, Users, Made
    <2>2. \A g \in Frames : FrameOK(g, call[g], Made')
      BY <1>2, FrameMono DEF Shape, CallsOK
    <2>3. call' = [call EXCEPT ![f] = In("store", l, FALSE)]
      BY DEF To
    <2>4. In("store", l, FALSE) \in Calls
      BY <2>1 DEF FrameOK
    <2>5. \A g \in Frames : FrameOK(g, call'[g], Made')
      BY <2>1, <2>2, <2>3 DEF Shape, CallsOK
    <2> QED BY <2>3, <2>4, <2>5 DEF Shape, CallsOK
  <1>4. CacheOK'
    BY <1>2, CacheSame DEF FetchOwn, Shape
  <1> QED BY <1>2, <1>3, <1>4 DEF Shape

LEMMA FetchBelowShape ==
    ASSUME NEW f \in Frames, Shape, FetchBelow(f) PROVE Shape'
  <1>1. call[f].link = None /\ ~call[f].counts /\ call[f].counts \in BOOLEAN
    BY FrameFacts DEF FetchBelow, Linked, Users, FrameOK
  <1>2. Fits(f, "nested", None, call[f].counts, Made)
    BY <1>1 DEF Fits, Pcs, Linked, Users, FetchBelow
  <1> QED BY <1>1, <1>2, Goes, LinksSame, MadeSame, CacheSame DEF FetchBelow, At, Shape

LEMMA WrapShape ==
    ASSUME NEW f \in Frames, Shape, Wrap(f) PROVE Shape'
  <1> DEFINE n == call[Nested(f)]
  <1>1. /\ Nested(f) \in Frames /\ n \in Calls /\ n.link \in Made /\ n.link \in Links
        /\ n.counts \in BOOLEAN /\ link[n.link].kind \in {"required", "plain", "expiring"}
    BY NestedFacts, FrameFacts, Zenon DEF Wrap, Linked, LinkStates
  <1>2. WrappedKinds(link[n.link].kind) \subseteq {"required", "plain", "expiring"}
    BY <1>1 DEF WrappedKinds
  <1> PICK l \in Links, kind \in WrappedKinds(link[n.link].kind) :
        /\ l \notin Made
        /\ link' = [link EXCEPT ![l] = [Unmade EXCEPT !.file = File(f), !.kind = kind,
                                                      !.below = n.link, !.counts = n.counts]]
        /\ call' = [To(f, "store", l, FALSE) EXCEPT ![Nested(f)] = Idle]
    BY DEF Wrap, IsNew
  <1> DEFINE y == [Unmade EXCEPT !.file = File(f), !.kind = kind,
                                 !.below = n.link, !.counts = n.counts]
  <1> HIDE DEF n
  <1>3. y \in LinkStates /\ y.file # None /\ y.below = n.link
    <2>1. File(f) \in Files /\ File(f) # None
      BY Constants
    <2>2. Unmade \in LinkStates
      BY DEF Unmade, LinkStates
    <2> QED BY <1>1, <1>2, <2>1, <2>2 DEF LinkStates
  <1> HIDE DEF y
  <1>4. LinksOK' /\ Made' = Made \cup {l}
    BY <1>1, <1>3, NewLink DEF Shape, y
  <1>5. CallsOK'
    <2>1. FrameOK(f, In("store", l, FALSE), Made')
      BY <1>4, FitsOK DEF Fits, Pcs, Linked, Users, Made
    <2>2. \A g \in Frames : FrameOK(g, call[g], Made') /\ FrameOK(g, Idle, Made')
      BY <1>4, FrameMono, FailedOK DEF Shape, CallsOK
    <2>3. In("store", l, FALSE) \in Calls /\ Idle \in Calls
      BY <2>1, <2>2 DEF FrameOK
    <2>4. \A g \in Frames : FrameOK(g, call'[g], Made')
      BY <1>1, <2>1, <2>2, <2>3 DEF Shape, CallsOK, To
    <2> QED BY <2>3, <2>4 DEF Shape, CallsOK, To
  <1>6. CacheOK'
    BY <1>4, CacheSame DEF Wrap, Shape
  <1> QED BY <1>4, <1>5, <1>6 DEF Shape

LEMMA CloseShape ==
    ASSUME NEW f \in Frames, Shape, call[f].pc \in Users, call' = At(f, "close"),
           UNCHANGED <<link, top, inner, flight>>
    PROVE  Shape'
  <1>1. Fits(f, "close", call[f].link, call[f].counts, Made)
    BY FrameFacts DEF Fits, Pcs, Linked, Users
  <1> QED BY <1>1, Goes, LinksSame, MadeSame, CacheSame DEF At, Shape

LEMMA UnwrapShape ==
    ASSUME NEW f \in Frames, Shape, Unwrap(f) PROVE Shape'
BY NestedFacts, CloseShape DEF Unwrap, Users

LEMMA RestoreShape ==
    ASSUME NEW f \in Frames, Shape, Restore(f) PROVE Shape'
  <1> DEFINE l == call[f].link
  <1>1. l \in Made
    BY FrameFacts DEF Restore, Linked
  <1>2. LinksOK' /\ Made' = Made
    <2>1. link' = [link EXCEPT ![l].ref = Closed]
      BY DEF Restore, RestoreClosed
    <2> HIDE DEF l
    <2> QED BY <1>1, <2>1, RefChange, LinkAssumption DEF Shape
  <1>3. Fits(f, "held", l, FALSE, Made) /\ Fits(f, "flight", None, FALSE, Made)
    BY <1>1 DEF Fits, Pcs, Linked, Users
  <1>4. call' = To(f, "held", l, FALSE) \/ call' = To(f, "flight", None, FALSE)
    BY DEF Restore, RestoreClosed, Again
  <1>5. UNCHANGED <<top, inner, flight>>
    BY DEF Restore
  <1> HIDE DEF l
  <1> QED BY <1>2, <1>3, <1>4, <1>5, Goes, CacheSame DEF Shape

\* A call ends.
LEMMA EndsOK == \A f \in Frames : CallsOK /\ call' = Ends(f) /\ Made' = Made => CallsOK'
BY FailedOK, OneFrame DEF Ends

LEMMA CloseLoadShape ==
    ASSUME NEW f \in Frames, Shape, CloseLoad(f) PROVE Shape'
  <1> DEFINE l == call[f].link
  <1>1. l \in Made /\ call[f].counts \in BOOLEAN /\ link[l].ref \in Int
    BY FrameFacts DEF CloseLoad, Linked
  <1>2. UNCHANGED <<link, top, inner, flight>> /\ Made' = Made
    BY MadeSame DEF CloseLoad
  <1>3. CASE call' = Ends(f)
    BY <1>2, <1>3, EndsOK, LinksSame, CacheSame DEF Shape
  <1>4. CASE link[l].ref >= 0 /\ call' = Loaded(f)
    <2> DEFINE e == [In("swap", l, call[f].counts) EXCEPT !.seen = link[l].ref]
    <2>1. FrameOK(f, e, Made)
      <3>1. link[l].ref \in Nat
        BY <1>1, <1>4
      <3> QED BY <1>1, <3>1, SwapOK
    <2>2. call' = [call EXCEPT ![f] = e]
      BY <1>4 DEF Loaded
    <2> HIDE DEF e
    <2> QED BY <1>2, <2>1, <2>2, OneFrame, LinksSame, CacheSame DEF Shape
  <1> QED BY <1>1, <1>3, <1>4 DEF CloseLoad

LEMMA CloseSwapShape ==
    ASSUME NEW f \in Frames, Shape, CloseSwap(f) PROVE Shape'
  <1> DEFINE l == call[f].link
             n == IF call[f].seen > 1 THEN call[f].seen - 1 ELSE Closed
  <1>1. l \in Made /\ call[f].counts \in BOOLEAN /\ n \in Int /\ call[f].pc = "swap"
    BY FrameFacts, LinkAssumption DEF CloseSwap, Linked, Calls
  <1>2. CASE call' = At(f, "close") /\ link' = link
    BY <1>1, <1>2, CloseShape DEF Users, CloseSwap
  <1>3. CASE /\ link' = [link EXCEPT ![l].ref = n]
             /\ call' = Ends(f) \/ call' = To(f, "closers", l, FALSE)
    <2>1. Fits(f, "closers", l, FALSE, Made)
      BY <1>1 DEF Fits, Pcs, Linked, Users
    <2> HIDE DEF l, n
    <2>2. LinksOK' /\ Made' = Made
      BY <1>1, <1>3, RefChange DEF Shape
    <2>3. CallsOK'
      BY <2>1, <2>2, <1>3, Goes, EndsOK DEF Shape
    <2> QED BY <2>2, <2>3, CacheSame DEF Shape, CloseSwap
  <1> QED BY <1>2, <1>3 DEF CloseSwap

LEMMA RunClosersShape ==
    ASSUME NEW f \in Frames, Shape, RunClosers(f) PROVE Shape'
  <1> DEFINE l == call[f].link
             y == [link[l] EXCEPT !.done = TRUE, !.below = None, !.counts = FALSE]
  <1>1. /\ l \in Made /\ link[l] \in LinkStates /\ link[l].file # None
        /\ link[l].counts \in BOOLEAN /\ (link[l].below # None => link[l].below \in Made)
    BY FrameFacts DEF RunClosers, Linked, LinkStates, Shape, LinksOK, LinkOK, Made
  <1>2. LinkOK(l, y, Made) /\ y.file # None
    BY <1>1 DEF LinkOK, LinkStates
  <1>3. link' = [link EXCEPT ![l] = y]
    BY <1>1 DEF RunClosers, Shape, LinksOK
  <1> HIDE DEF l, y
  <1>4. LinksOK' /\ Made' = Made
    BY <1>1, <1>2, <1>3, OneLink DEF Shape
  <1>5. CASE call' = Ends(f)
    BY <1>4, <1>5, EndsOK, CacheSame DEF Shape, RunClosers
  <1>6. CASE link[l].below # None /\ call' = To(f, "close", link[l].below, link[l].counts)
    <2>1. Fits(f, "close", link[l].below, link[l].counts, Made)
      BY <1>1, <1>6 DEF Fits, Pcs, Linked, Users
    <2> QED BY <1>4, <1>6, <2>1, Goes, CacheSame DEF Shape, RunClosers
  <1> QED BY <1>5, <1>6 DEF RunClosers, l

LEMMA DropShape ==
    ASSUME NEW K \in SUBSET Files, Shape, Drop(K) PROVE Shape'
  <1>1. Made' = Made /\ LinksOK'
    BY MadeSame, LinksSame DEF Drop, Shape
  <1>2. CallsOK'
    BY <1>1 DEF Drop, Shape, CallsOK
  <1>3. top' \in [Files -> Links \cup {None}]
    BY DEF Drop, Shape, CacheOK
  <1>4. inner' \in [Links -> [Types -> Links \cup {None}]]
    BY DEF Drop, Shape, CacheOK
  <1>5. \A m \in Links, t \in Types : inner'[m][t] # None => inner'[m][t] \in Made
    BY DEF Drop, Shape, CacheOK
  <1> QED BY <1>1, <1>2, <1>3, <1>4, <1>5 DEF Drop, Shape, CacheOK

LEMMA GCShape ==
    ASSUME Shape, GC PROVE Shape'
  <1>1. Made' = Made /\ LinksOK'
    BY MadeSame, LinksSame DEF GC, Shape
  <1>2. CallsOK'
    BY <1>1 DEF GC, Shape, CallsOK
  <1>3. top' \in [Files -> Links \cup {None}] /\ inner' \in [Links -> [Types -> Links \cup {None}]]
    BY DEF GC, Shape, CacheOK
  <1>4. \A m \in Links, t \in Types : inner'[m][t] # None => inner'[m][t] \in Made
    BY DEF GC, Shape, CacheOK
  <1> QED BY <1>1, <1>2, <1>3, <1>4 DEF GC, Shape, CacheOK

LEMMA ExpireShape ==
    ASSUME NEW l \in Links, Shape, Expire(l) PROVE Shape'
  <1> DEFINE y == [link[l] EXCEPT !.over = TRUE]
  <1>1. link[l] \in LinkStates /\ link[l].kind # Unmade.kind /\ l \in Made
    BY DEF Expire, Shape, LinksOK, LinkOK, Unmade
  <1>2. LinkOK(l, y, Made) /\ y.file # None
    BY <1>1 DEF Shape, LinksOK, LinkOK, LinkStates, Made
  <1>3. link' = [link EXCEPT ![l] = y]
    BY DEF Expire
  <1> HIDE DEF y
  <1>4. Made' = Made /\ LinksOK'
    BY <1>1, <1>2, <1>3, OneLink DEF Shape
  <1>5. CallsOK' /\ CacheOK'
    BY <1>4, CacheSame DEF Expire, Shape, CallsOK
  <1> QED BY <1>4, <1>5 DEF Shape

LEMMA NextShape == Shape /\ [Next]_vars => Shape'
  <1> SUFFICES ASSUME Shape, [Next]_vars PROVE Shape'
    OBVIOUS
  <1>1. ASSUME NEW f \in Frames, Proceeds(f) PROVE Shape'
    <2>1. CASE Join(f)
      BY <2>1, AddReferenceShape DEF Join, Linked
    <2>2. CASE Lookup(f) \/ Evict(f) \/ Store(f) \/ Hit(f) \/ Do(f) \/ FetchFails(f)
      BY <2>2, LookupShape, EvictShape, StoreShape, HitShape, DoShape, FetchFailsShape
    <2>3. CASE FetchOwn(f) \/ FetchBelow(f) \/ Wrap(f) \/ Unwrap(f) \/ Finish(f) \/ Restore(f)
      BY <2>3, FetchOwnShape, FetchBelowShape, WrapShape, UnwrapShape, FinishShape, RestoreShape
    <2>4. CASE CloseLoad(f) \/ CloseSwap(f) \/ RunClosers(f)
      BY <2>4, CloseLoadShape, CloseSwapShape, RunClosersShape
    <2> QED BY <1>1, <2>1, <2>2, <2>3, <2>4 DEF Proceeds
  <1>2. ASSUME NEW f \in Frames, Close(f) PROVE Shape'
    BY <1>2, CloseShape DEF Close, Users
  <1>3. ASSUME UNCHANGED vars PROVE Shape'
    BY <1>3, MadeSame, LinksSame, CacheSame DEF vars, Shape, CallsOK
  <1>4. ASSUME NEW k \in Files, DeleteKey(k) PROVE Shape'
    BY <1>4, DropShape DEF DeleteKey
  <1>5. ASSUME Clear PROVE Shape'
    BY <1>5, DropShape DEF Clear
  <1> QED BY <1>1, <1>2, <1>3, <1>4, <1>5, GCShape, ExpireShape DEF Next

\* Every variable keeps its type, and a frame deals with a link that was made.
THEOREM TypeCorrect == Spec => []TypeOK
  <1>1. Spec => []Shape
    BY InitShape, NextShape, PTL DEF Spec
  <1> QED BY <1>1, ShapeTypeOK, PTL

-----------------------------------------------------------------------------
(* Steps, as far as references are concerned.                               *)

\* What a frame has to do with the counter and the closers of a link.
Roles == Users \cup {"restore", "closers"}
SameRole(x, y) ==
    /\ x.counts <=> y.counts
    /\ \/ x.pc \notin Roles /\ y.pc \notin Roles
       \/ x.pc \in Users /\ y.pc \in Users /\ x.link = y.link
       \/ x = y
SameLink(x, y) == /\ y.file = x.file /\ y.kind = x.kind /\ y.ref = x.ref
                  /\ y.below = x.below /\ y.counts = x.counts /\ y.done = x.done
Calm == /\ \A g \in Frames : SameRole(call[g], call'[g])
        /\ \A l \in Links : SameLink(link[l], link'[l])

\* The steps that are not calm.
Joins(f)    == call[f].pc \in {"hit", "join"} /\ AddReference(f, "restore")
Borrows(f)  == /\ call[f].pc = "hit" /\ link[call[f].link].kind = "expiring"
               /\ call' = To(f, "held", call[f].link, FALSE) /\ link' = link
GivesUp(f)  == /\ call[f].pc = "close" /\ link[call[f].link].ref < 0
               /\ call' = Ends(f) /\ link' = link
Drops(f)    == LET l == call[f].link
                   r == call[f].seen
               IN  /\ call[f].pc = "swap" /\ link[l].ref = r
                   /\ link' = [link EXCEPT ![l].ref = IF r > 1 THEN r - 1 ELSE Closed]
                   /\ call' = IF r > 1 THEN Ends(f) ELSE To(f, "closers", l, FALSE)

\* A frame without a role moves to another state without one.
LEMMA QuietOne ==
    ASSUME NEW f \in Frames, Shape, call[f].pc \notin Roles, link' = link,
           NEW r, call' = [call EXCEPT ![f] = r], r.pc \notin Roles, ~r.counts
    PROVE  Calm
  <1>1. call \in [Frames -> Calls] /\ ~call[f].counts
    BY FrameFacts DEF Shape, CallsOK, FrameOK, Roles
  <1> QED BY <1>1 DEF Calm, SameRole, SameLink

LEMMA QuietGoes ==
    \A f \in Frames : \A pc, l :
        Shape /\ call[f].pc \notin Roles /\ link' = link /\ call' = To(f, pc, l, FALSE) /\ pc \notin Roles
            => Calm
  <1> SUFFICES ASSUME NEW f \in Frames, NEW pc, NEW l, Shape, call[f].pc \notin Roles, link' = link,
                      call' = To(f, pc, l, FALSE), pc \notin Roles
               PROVE  Calm
    OBVIOUS
  <1> DEFINE r == In(pc, l, FALSE)
  <1>1. call' = [call EXCEPT ![f] = r]
    BY DEF To
  <1>2. r.pc \notin Roles /\ ~r.counts
    BY InFree
  <1> HIDE DEF r
  <1> QED BY <1>1, <1>2, QuietOne

LEMMA QuietAt ==
    \A f \in Frames : \A pc :
        Shape /\ call[f].pc \notin Roles /\ link' = link /\ call' = At(f, pc) /\ pc \notin Roles
            => Calm
  <1> SUFFICES ASSUME NEW f \in Frames, NEW pc, Shape, call[f].pc \notin Roles, link' = link,
                      call' = At(f, pc), pc \notin Roles
               PROVE  Calm
    OBVIOUS
  <1> DEFINE r == In(pc, call[f].link, call[f].counts)
  <1>1. call' = [call EXCEPT ![f] = r]
    BY DEF To, At
  <1>2. ~call[f].counts
    BY FrameFacts DEF FrameOK, Roles
  <1>3. r.pc \notin Roles /\ ~r.counts
    BY <1>2, InStays
  <1> HIDE DEF r
  <1> QED BY <1>1, <1>3, QuietOne

\* A user stays one.
LEMMA UserOne ==
    ASSUME NEW f \in Frames, Shape, call[f].pc \in Users, link' = link, NEW r,
           call' = [call EXCEPT ![f] = r], r.pc \in Users, r.link = call[f].link,
           r.counts = call[f].counts
    PROVE  Calm
  <1>1. call \in [Frames -> Calls]
    BY DEF Shape, CallsOK
  <1> QED BY <1>1 DEF Calm, SameRole, SameLink

LEMMA Starts == ASSUME NEW f \in Frames, MayCall(f) PROVE call[f].pc = "idle"
BY DEF MayCall, Frames

LEMMA LookupCalm == ASSUME NEW f \in Frames, Shape, Lookup(f) PROVE Calm
  <1> DEFINE m == top[File(f)]
             l == IF m = None THEN None ELSE inner[m][Type(f)]
             e == [In("evict", l, FALSE) EXCEPT !.map = m]
  <1>1. call[f].pc \notin Roles /\ link' = link
    BY Starts DEF Lookup, Roles, Users
  <1>2. CASE call' = Again(f)
    BY <1>1, <1>2, QuietGoes DEF Again, Roles, Users
  <1>3. CASE call' = [call EXCEPT ![f] = e]
    <2> HIDE DEF m, l
    <2>1. e.pc = "evict" /\ ~e.counts
      BY DEF In
    <2> HIDE DEF e
    <2> QED BY <1>1, <1>3, <2>1, QuietOne DEF Roles, Users
  <1>4. CASE call' = To(f, "hit", l, FALSE)
    <2> HIDE DEF l
    <2> QED BY <1>1, <1>4, QuietGoes DEF Roles, Users
  <1> QED BY <1>2, <1>3, <1>4 DEF Lookup

LEMMA FetchFailsCalm == ASSUME NEW f \in Frames, Shape, FetchFails(f) PROVE Calm
  <1> SUFFICES \A g \in Frames : SameRole(call[g], call'[g])
    BY DEF FetchFails, Calm, SameLink
  <1> TAKE g \in Frames
  <1>1. CASE call'[g] = call[g]
    BY <1>1 DEF SameRole
  <1>2. CASE g = f \/ Awaits(g, f)
    <2>1. call[g].pc \in {"fetch", "nested", "wait"}
      BY <1>2 DEF FetchFails, Awaits
    <2>2. call'[g] = Failed(g)
      BY <1>2 DEF FetchFails
    <2>3. Failed(g).pc \in {"failed", "idle"} /\ ~Failed(g).counts
      <3>1. Failed(g) = In("failed", None, FALSE) \/ Failed(g) = In("idle", None, FALSE)
        BY DEF Failed
      <3> QED BY <3>1, InFree
    <2>4. ~call[g].counts
      BY <2>1, FrameFacts DEF FrameOK, Users
    <2> QED BY <2>1, <2>2, <2>3, <2>4 DEF SameRole, Roles, Users
  <1>3. CASE call[f].pc = "nested" /\ g = Nested(f) /\ call'[g] = Idle
    <2>1. call[g].pc = "failed"
      BY <1>3 DEF FetchFails
    <2>2. ~call[g].counts
      BY <2>1, FrameFacts DEF FrameOK, Users
    <2>3. Idle.pc = "idle" /\ ~Idle.counts
      BY InFree DEF Idle
    <2> QED BY <1>3, <2>1, <2>2, <2>3 DEF SameRole, Roles, Users
  <1> QED BY <1>1, <1>2, <1>3 DEF FetchFails

LEMMA FinishCalm == ASSUME NEW f \in Frames, Shape, Finish(f) PROVE Calm
  <1> SUFFICES \A g \in Frames : SameRole(call[g], call'[g])
    BY DEF Finish, Calm, SameLink
  <1> TAKE g \in Frames
  <1>1. CASE call'[g] = call[g]
    BY <1>1 DEF SameRole
  <1>2. CASE g = f \/ Awaits(g, f)
    <2>1. call[g].pc \in {"finish", "wait"}
      BY <1>2 DEF Finish, Awaits
    <2>2. call'[g] = In("join", call[f].link, FALSE)
      BY <1>2 DEF Finish
    <2>3. ~call[g].counts
      BY <2>1, FrameFacts DEF FrameOK, Users
    <2>4. call'[g].pc = "join" /\ ~call'[g].counts
      BY <2>2, InFree
    <2> QED BY <2>1, <2>3, <2>4 DEF SameRole, Roles, Users
  <1> QED BY <1>1, <1>2 DEF Finish

LEMMA CloseCalm ==
    ASSUME NEW f \in Frames, Shape, call[f].pc \in Users, link' = link, call' = At(f, "close")
    PROVE  Calm
  <1> DEFINE r == In("close", call[f].link, call[f].counts)
  <1>1. call' = [call EXCEPT ![f] = r]
    BY DEF To, At
  <1>2. r.pc = "close" /\ r.link = call[f].link /\ r.counts = call[f].counts
    BY InFields
  <1> HIDE DEF r
  <1> QED BY <1>1, <1>2, UserOne DEF Users

LEMMA LoadedCalm ==
    ASSUME NEW f \in Frames, Shape, call[f].pc \in Users, link' = link, call' = Loaded(f)
    PROVE  Calm
  <1> DEFINE i == In("swap", call[f].link, call[f].counts)
             r == [i EXCEPT !.seen = link[call[f].link].ref]
  <1>1. call' = [call EXCEPT ![f] = r]
    BY DEF Loaded
  <1>2. i = [pc |-> "swap", link |-> call[f].link, counts |-> call[f].counts, map |-> None, seen |-> 0]
    BY DEF In
  <1>3. r.pc = "swap" /\ r.link = call[f].link /\ r.counts = call[f].counts
    BY <1>2
  <1> HIDE DEF r
  <1> QED BY <1>1, <1>3, UserOne DEF Users

LEMMA ExpireCalm == ASSUME NEW l \in Links, Shape, Expire(l) PROVE Calm
  <1> DEFINE y == [link[l] EXCEPT !.over = TRUE]
  <1>1. link[l] \in LinkStates /\ link \in [Links -> LinkStates]
    BY DEF Shape, LinksOK
  <1>2. SameLink(link[l], y)
    BY <1>1 DEF SameLink, LinkStates
  <1>3. link' = [link EXCEPT ![l] = y]
    BY DEF Expire
  <1> HIDE DEF y
  <1> QED BY <1>1, <1>2, <1>3 DEF Calm, SameRole, SameLink, Expire

\* Every step is calm, or one of those that move a reference.
LEMMA Steps ==
    ASSUME Shape, [Next]_vars
    PROVE  \/ Calm
           \/ \E f \in Frames :
                \/ Joins(f) \/ Borrows(f) \/ Restore(f) \/ GivesUp(f) \/ Drops(f) \/ RunClosers(f)
                \/ FetchOwn(f) \/ Wrap(f)
  <1> DEFINE Rest(f) == \/ Joins(f) \/ Borrows(f) \/ Restore(f) \/ GivesUp(f) \/ Drops(f)
                        \/ RunClosers(f) \/ FetchOwn(f) \/ Wrap(f)
  <1>1. ASSUME NEW f \in Frames, Proceeds(f) PROVE Calm \/ Rest(f)
    <2>1. CASE Lookup(f) \/ FetchFails(f) \/ Finish(f)
      BY <2>1, LookupCalm, FetchFailsCalm, FinishCalm
    <2>2. CASE Evict(f)
      BY <2>2, QuietGoes DEF Evict, Again, Roles, Users
    <2>3. CASE Store(f)
      BY <2>3, QuietAt DEF Store, Roles, Users
    <2>4. CASE Hit(f) \/ Join(f)
      BY <2>4 DEF Hit, Join, Joins, Borrows
    <2>5. CASE Do(f)
      BY <2>5, QuietAt DEF Do, Roles, Users
    <2>6. CASE FetchBelow(f)
      BY <2>6, QuietAt DEF FetchBelow, Roles, Users
    <2>7. CASE Unwrap(f)
      BY <2>7, NestedFacts, CloseCalm DEF Unwrap, Users
    <2>8. CASE CloseLoad(f)
      BY <2>8, LoadedCalm DEF CloseLoad, GivesUp, Users
    <2>9. CASE CloseSwap(f)
      BY <2>9, CloseCalm DEF CloseSwap, Drops, Users
    <2> QED BY <1>1, <2>1, <2>2, <2>3, <2>4, <2>5, <2>6, <2>7, <2>8, <2>9 DEF Proceeds
  <1>2. ASSUME NEW f \in Frames, Close(f) PROVE Calm
    BY <1>2, CloseCalm DEF Close, Users
  <1>3. ASSUME UNCHANGED <<call, link>> PROVE Calm
    BY <1>3 DEF Calm, SameRole, SameLink
  <1>4. ASSUME NEW k \in Files, DeleteKey(k) PROVE Calm
    BY <1>3, <1>4 DEF DeleteKey, Drop
  <1>5. ASSUME Clear \/ GC PROVE Calm
    BY <1>3, <1>5 DEF Clear, Drop, GC
  <1>6. ASSUME UNCHANGED vars PROVE Calm
    BY <1>3, <1>6 DEF vars
  <1> HIDE DEF Rest
  <1>7. Calm \/ \E f \in Frames : Rest(f)
    BY <1>1, <1>2, <1>4, <1>5, <1>6, ExpireCalm DEF Next
  <1> QED BY <1>7 DEF Rest

-----------------------------------------------------------------------------
(* What the steps that are not calm change.                                 *)

OthersSame(f) == \A g \in Frames \ {f} : call'[g] = call[g]
LinksBut(l)   == \A k \in Links \ {l} : link'[k] = link[k]
SameButRef(x, y) == /\ y.file = x.file /\ y.kind = x.kind /\ y.below = x.below
                    /\ y.counts = x.counts /\ y.done = x.done

LEMMA ToFacts ==
    ASSUME NEW f \in Frames, NEW pc, NEW l, NEW c, Shape, call' = To(f, pc, l, c)
    PROVE  OthersSame(f) /\ call'[f].pc = pc /\ call'[f].link = l /\ call'[f].counts = c
  <1>1. call \in [Frames -> Calls]
    BY DEF Shape, CallsOK
  <1>2. call' = [call EXCEPT ![f] = In(pc, l, c)]
    BY DEF To
  <1>3. call'[f] = In(pc, l, c) /\ OthersSame(f)
    BY <1>1, <1>2 DEF OthersSame
  <1> QED BY <1>3, InFields

LEMMA EndsFacts ==
    ASSUME NEW f \in Frames, Shape, call' = Ends(f)
    PROVE  OthersSame(f) /\ call'[f].pc \notin Roles /\ ~call'[f].counts
  <1>1. call \in [Frames -> Calls]
    BY DEF Shape, CallsOK
  <1>2. call'[f] = Failed(f) /\ OthersSame(f)
    BY <1>1 DEF OthersSame, Ends
  <1>3. Failed(f) = In("failed", None, FALSE) \/ Failed(f) = In("idle", None, FALSE)
    BY DEF Failed
  <1>4. Failed(f).pc \in {"failed", "idle"} /\ ~Failed(f).counts
    BY <1>3, InFree
  <1> QED BY <1>2, <1>4 DEF Roles, Users

LEMMA RefFacts ==
    ASSUME NEW l \in Links, Shape, NEW n, link' = [link EXCEPT ![l].ref = n]
    PROVE  LinksBut(l) /\ SameButRef(link[l], link'[l]) /\ link'[l].ref = n
  <1>1. link \in [Links -> LinkStates] /\ link[l] \in LinkStates
    BY DEF Shape, LinksOK
  <1> QED BY <1>1 DEF LinksBut, SameButRef, LinkStates

LEMMA JoinsFacts ==
    ASSUME NEW f \in Frames, Shape, Joins(f)
    PROVE  LET l == call[f].link IN
           /\ l \in Made /\ l \in Links /\ link[l].ref \in Int
           /\ call[f].pc \notin Roles /\ ~call[f].counts
           /\ OthersSame(f) /\ LinksBut(l) /\ SameButRef(link[l], link'[l])
           /\ link'[l].ref = link[l].ref + 1
           /\ call'[f].link = l
           /\ \/ call'[f].pc = "held" /\ call'[f].counts /\ link'[l].ref > 0
              \/ call'[f].pc = "restore" /\ ~call'[f].counts /\ link'[l].ref <= 0
  <1> DEFINE l == call[f].link
  <1>1. /\ l \in Made /\ l \in Links /\ link[l].ref \in Int
        /\ call[f].pc \notin Roles /\ ~call[f].counts
    BY FrameFacts DEF Joins, Linked, Roles, Users, FrameOK
  <1>2. link' = [link EXCEPT ![l].ref = link[l].ref + 1]
    BY DEF Joins, AddReference
  <1>3. LinksBut(l) /\ SameButRef(link[l], link'[l]) /\ link'[l].ref = link[l].ref + 1
    <2> HIDE DEF l
    <2> QED BY <1>1, <1>2, RefFacts
  <1>4. CASE link[l].ref + 1 > 0
    <2>1. call' = To(f, "held", l, TRUE)
      BY <1>4 DEF Joins, AddReference
    <2> HIDE DEF l
    <2>2. OthersSame(f) /\ call'[f].link = l /\ call'[f].pc = "held" /\ call'[f].counts
      BY <2>1, ToFacts
    <2> QED BY <1>1, <1>3, <1>4, <2>2 DEF l
  <1>5. CASE ~(link[l].ref + 1 > 0)
    <2>1. call' = To(f, "restore", l, FALSE)
      BY <1>5 DEF Joins, AddReference
    <2> HIDE DEF l
    <2>2. OthersSame(f) /\ call'[f].link = l /\ call'[f].pc = "restore" /\ ~call'[f].counts
      BY <2>1, ToFacts
    <2>3. link[l].ref + 1 <= 0
      BY <1>1, <1>5
    <2> QED BY <1>1, <1>3, <2>2, <2>3 DEF l
  <1> QED BY <1>4, <1>5

LEMMA BorrowsFacts ==
    ASSUME NEW f \in Frames, Shape, Borrows(f)
    PROVE  LET l == call[f].link IN
           /\ l \in Made /\ l \in Links /\ call[f].pc \notin Roles /\ ~call[f].counts
           /\ OthersSame(f) /\ link' = link /\ link[l].kind = "expiring"
           /\ call'[f].pc = "held" /\ call'[f].link = l /\ ~call'[f].counts
  <1>1. /\ call[f].link \in Made /\ call[f].link \in Links
        /\ call[f].pc \notin Roles /\ ~call[f].counts
    BY FrameFacts DEF Borrows, Linked, Roles, Users, FrameOK
  <1>2. /\ OthersSame(f) /\ call'[f].pc = "held" /\ call'[f].link = call[f].link
        /\ ~call'[f].counts
    <2>1. call' = To(f, "held", call[f].link, FALSE)
      BY DEF Borrows
    <2> QED BY <2>1, ToFacts
  <1> QED BY <1>1, <1>2 DEF Borrows

LEMMA RestoreFacts ==
    ASSUME NEW f \in Frames, Shape, Restore(f)
    PROVE  LET l == call[f].link IN
           /\ l \in Made /\ l \in Links /\ link[l].ref \in Int
           /\ call[f].pc = "restore" /\ ~call[f].counts
           /\ OthersSame(f) /\ LinksBut(l) /\ SameButRef(link[l], link'[l])
           /\ link'[l].ref = Closed /\ ~call'[f].counts
           /\ \/ call'[f].pc = "held" /\ call'[f].link = l /\ link[l].kind # "required"
              \/ call'[f].pc = "flight"
  <1> DEFINE l == call[f].link
  <1>1. /\ l \in Made /\ l \in Links /\ link[l].ref \in Int
        /\ call[f].pc = "restore" /\ ~call[f].counts
    BY FrameFacts DEF Restore, Linked, Users, FrameOK
  <1>2. link' = [link EXCEPT ![l].ref = Closed]
    BY DEF Restore, RestoreClosed
  <1>3. LinksBut(l) /\ SameButRef(link[l], link'[l]) /\ link'[l].ref = Closed
    <2> HIDE DEF l
    <2> QED BY <1>1, <1>2, RefFacts
  <1>4. \/ link[l].kind # "required" /\ call' = To(f, "held", l, FALSE)
        \/ call' = To(f, "flight", None, FALSE)
    BY <1>1 DEF Restore, RestoreClosed, Again
  <1> HIDE DEF l
  <1>5. /\ OthersSame(f) /\ ~call'[f].counts
        /\ \/ call'[f].pc = "held" /\ call'[f].link = l /\ link[l].kind # "required"
           \/ call'[f].pc = "flight"
    BY <1>4, ToFacts
  <1> QED BY <1>1, <1>3, <1>5 DEF l

LEMMA GivesUpFacts ==
    ASSUME NEW f \in Frames, Shape, GivesUp(f)
    PROVE  /\ call[f].link \in Made /\ call[f].link \in Links /\ link[call[f].link].ref < 0
           /\ call[f].pc = "close" /\ OthersSame(f) /\ link' = link
           /\ call'[f].pc \notin Roles /\ ~call'[f].counts
  <1>1. call[f].link \in Made /\ call[f].link \in Links
    BY FrameFacts DEF GivesUp, Linked
  <1> QED BY <1>1, EndsFacts DEF GivesUp

LEMMA DropsFacts ==
    ASSUME NEW f \in Frames, Shape, Drops(f)
    PROVE  LET l == call[f].link IN
           /\ l \in Made /\ l \in Links /\ link[l].ref \in Nat /\ call[f].pc = "swap"
           /\ OthersSame(f) /\ LinksBut(l) /\ SameButRef(link[l], link'[l])
           /\ ~call'[f].counts
           /\ \/ /\ link[l].ref > 1 /\ link'[l].ref = link[l].ref - 1
                 /\ call'[f].pc \notin Roles
              \/ /\ link[l].ref <= 1 /\ link'[l].ref = Closed
                 /\ call'[f].pc = "closers" /\ call'[f].link = l
  <1> DEFINE l == call[f].link
             n == IF call[f].seen > 1 THEN call[f].seen - 1 ELSE Closed
  <1>1. l \in Made /\ l \in Links /\ call[f].pc = "swap" /\ link[l].ref \in Int
        /\ call[f].seen \in Int /\ call[f].seen >= 0 /\ link[l].ref = call[f].seen
    BY FrameFacts DEF Drops, Linked, FrameOK, Calls
  <1>2. link' = [link EXCEPT ![l].ref = n]
    BY DEF Drops
  <1>3. LinksBut(l) /\ SameButRef(link[l], link'[l]) /\ link'[l].ref = n
    <2> HIDE DEF l, n
    <2> QED BY <1>1, <1>2, RefFacts
  <1>4. CASE call[f].seen > 1
    <2>1. call' = Ends(f)
      BY <1>4 DEF Drops
    <2>2. OthersSame(f) /\ call'[f].pc \notin Roles /\ ~call'[f].counts
      BY <2>1, EndsFacts
    <2> HIDE DEF l
    <2>3. link[l].ref \in Nat /\ link[l].ref > 1 /\ link'[l].ref = link[l].ref - 1
      BY <1>1, <1>3, <1>4
    <2> QED BY <1>1, <1>3, <2>2, <2>3 DEF l
  <1>5. CASE ~(call[f].seen > 1)
    <2>1. call' = To(f, "closers", l, FALSE)
      BY <1>5 DEF Drops
    <2> HIDE DEF l
    <2>2. /\ OthersSame(f) /\ ~call'[f].counts
          /\ call'[f].pc = "closers" /\ call'[f].link = l
      BY <2>1, ToFacts
    <2>3. link[l].ref \in Nat /\ link[l].ref <= 1 /\ link'[l].ref = Closed
      BY <1>1, <1>3, <1>5
    <2> QED BY <1>1, <1>3, <2>2, <2>3 DEF l
  <1> QED BY <1>4, <1>5

LEMMA RunClosersFacts ==
    ASSUME NEW f \in Frames, Shape, RunClosers(f)
    PROVE  LET l == call[f].link IN
           /\ l \in Made /\ l \in Links /\ link[l].ref \in Int
           /\ call[f].pc = "closers" /\ ~call[f].counts
           /\ OthersSame(f) /\ LinksBut(l)
           /\ link'[l].file = link[l].file /\ link'[l].kind = link[l].kind
           /\ link'[l].ref = link[l].ref
           /\ link'[l].below = None /\ ~link'[l].counts /\ link'[l].done
           /\ \/ /\ link[l].below = None /\ call'[f].pc \notin Roles /\ ~call'[f].counts
              \/ /\ link[l].below \in Made /\ call'[f].pc = "close"
                 /\ call'[f].link = link[l].below /\ call'[f].counts = link[l].counts
  <1> DEFINE l == call[f].link
             y == [link[l] EXCEPT !.done = TRUE, !.below = None, !.counts = FALSE]
  <1>1. /\ l \in Made /\ l \in Links /\ link[l].ref \in Int /\ link[l] \in LinkStates
        /\ call[f].pc = "closers" /\ ~call[f].counts
    BY FrameFacts DEF RunClosers, Linked, Users, FrameOK
  <1>2. /\ y.file = link[l].file /\ y.kind = link[l].kind /\ y.ref = link[l].ref
        /\ y.below = None /\ ~y.counts /\ y.done
    BY <1>1 DEF LinkStates
  <1>3. link' = [link EXCEPT ![l] = y]
    BY <1>1 DEF RunClosers, Shape, LinksOK
  <1> HIDE DEF l, y
  <1>4. LinksBut(l) /\ link'[l] = y
    BY <1>1, <1>3 DEF LinksBut, Shape, LinksOK
  <1>5. CASE link[l].below = None /\ call' = Ends(f)
    BY <1>1, <1>2, <1>4, <1>5, EndsFacts DEF l
  <1>6. CASE link[l].below # None /\ call' = To(f, "close", link[l].below, link[l].counts)
    <2>1. link[l].below \in Made
      BY <1>1, <1>6 DEF Shape, LinksOK, LinkOK
    <2>2. /\ OthersSame(f) /\ call'[f].pc = "close"
          /\ call'[f].link = link[l].below /\ call'[f].counts = link[l].counts
      BY <1>6, ToFacts
    <2> QED BY <1>1, <1>2, <1>4, <2>1, <2>2 DEF l
  <1> QED BY <1>5, <1>6 DEF RunClosers, l

\* A link that was just made: nobody has had to do with it.
Fresh(l) == /\ l \in Links /\ l \notin Made /\ Made' = Made \cup {l} /\ LinksBut(l)
            /\ link'[l].ref = 0 /\ ~link'[l].done

LEMMA FetchOwnFacts ==
    ASSUME NEW f \in Frames, Shape, FetchOwn(f)
    PROVE  \E l \in Links :
              /\ Fresh(l) /\ link'[l].below = None /\ ~link'[l].counts
              /\ call[f].pc \notin Roles /\ ~call[f].counts /\ OthersSame(f)
              /\ call'[f].pc \notin Roles /\ ~call'[f].counts
              /\ call'[f].pc = "store" /\ call'[f].link = l
  <1> PICK l \in Links, kind \in Kinds :
        /\ l \notin Made
        /\ link' = [link EXCEPT ![l] = [Unmade EXCEPT !.file = File(f), !.kind = kind]]
        /\ call' = To(f, "store", l, FALSE)
    BY DEF FetchOwn, IsNew
  <1> DEFINE y == [Unmade EXCEPT !.file = File(f), !.kind = kind]
  <1>1. y.ref = 0 /\ ~y.done /\ y.below = None /\ ~y.counts /\ y.file # None
    BY Constants DEF Unmade
  <1> HIDE DEF y
  <1>2. link'[l] = y /\ LinksBut(l) /\ Made' = Made \cup {l}
    BY <1>1 DEF Shape, LinksOK, LinksBut, Made, y
  <1>3. call[f].pc \notin Roles /\ ~call[f].counts
    BY FrameFacts DEF FrameOK, FetchOwn, Roles, Users
  <1>4. OthersSame(f) /\ call'[f].pc = "store" /\ call'[f].link = l /\ ~call'[f].counts
    BY ToFacts
  <1> QED BY <1>1, <1>2, <1>3, <1>4 DEF Fresh, Roles, Users

LEMMA WrapFacts ==
    ASSUME NEW f \in Frames, Shape, Wrap(f)
    PROVE  LET g == Nested(f)
               b == call[g].link
           IN  /\ g \in Frames /\ g # f /\ b \in Made /\ call[g].pc = "held"
               /\ call[f].pc \notin Roles /\ ~call[f].counts
               /\ call'[f].pc \notin Roles /\ ~call'[f].counts
               /\ call'[g].pc \notin Roles /\ ~call'[g].counts
               /\ \A h \in Frames \ {f, g} : call'[h] = call[h]
               /\ \E l \in Links :
                     /\ Fresh(l) /\ link'[l].below = b /\ link'[l].counts = call[g].counts
                     /\ link'[l].kind = "required" => link[b].kind = "required"
                     /\ call'[f].pc = "store" /\ call'[f].link = l
  <1> DEFINE g == Nested(f)
             b == call[g].link
  <1>1. /\ g \in Frames /\ g # f /\ b \in Made /\ call[g].pc = "held"
        /\ call[g].counts \in BOOLEAN /\ call[f].pc \notin Roles /\ ~call[f].counts
    BY NestedFacts, FrameFacts DEF Wrap, Linked, FrameOK, Roles, Users
  <1> PICK l \in Links, kind \in WrappedKinds(link[b].kind) :
        /\ l \notin Made
        /\ link' = [link EXCEPT ![l] = [Unmade EXCEPT !.file = File(f), !.kind = kind,
                                                      !.below = b, !.counts = call[g].counts]]
        /\ call' = [To(f, "store", l, FALSE) EXCEPT ![Nested(f)] = Idle]
    BY DEF Wrap, IsNew
  <1> DEFINE y == [Unmade EXCEPT !.file = File(f), !.kind = kind,
                                 !.below = b, !.counts = call[g].counts]
  <1>2. kind = "required" => link[b].kind = "required"
    BY DEF WrappedKinds
  <1>3. /\ y.ref = 0 /\ ~y.done /\ y.below = b /\ y.counts = call[g].counts /\ y.file # None
        /\ y.kind = kind
    <2> HIDE DEF b, g
    <2> QED BY Constants DEF Unmade
  <1> HIDE DEF y
  <1>4. link'[l] = y /\ LinksBut(l) /\ Made' = Made \cup {l}
    BY <1>3 DEF Shape, LinksOK, LinksBut, Made, y
  <1>5. /\ call'[f] = In("store", l, FALSE) /\ call'[g] = Idle
        /\ \A h \in Frames \ {f, g} : call'[h] = call[h]
    BY <1>1 DEF Shape, CallsOK, To
  <1>6. /\ call'[f].pc = "store" /\ call'[f].link = l /\ ~call'[f].counts
        /\ call'[g].pc = "idle" /\ ~call'[g].counts
    <2> DEFINE a == In("store", l, FALSE)
    <2>1. a.pc = "store" /\ ~a.counts /\ Idle.pc = "idle" /\ ~Idle.counts
      BY InFree DEF Idle
    <2>2. a.link = l
      BY InLink
    <2> HIDE DEF a
    <2> QED BY <1>5, <2>1, <2>2 DEF a
  <1> QED BY <1>1, <1>2, <1>3, <1>4, <1>5, <1>6 DEF Fresh, Roles, Users

-----------------------------------------------------------------------------
(* The counter of a closed link stays negative: frames that try to join it  *)
(* lift it, each by one, until they restore it.                             *)

Restoring(l) == {f \in Frames : call[f].pc = "restore" /\ call[f].link = l}
Low == \A l \in Made : link[l].ref < 0 => link[l].ref <= Closed + Cardinality(Restoring(l))

LEMMA FramesFinite ==
    /\ IsFiniteSet(Frames) /\ Cardinality(Frames) \in Nat
    /\ Closed \in Int /\ Closed < 0 /\ Closed + Cardinality(Frames) < 0
  <1>1. IsFiniteSet(Frames)
    BY LinkAssumption, FS_Product DEF Frames
  <1>2. Cardinality(Frames) \in Nat
    BY <1>1, FS_CardinalityType
  <1> QED BY <1>1, <1>2, LinkAssumption DEF Frames

LEMMA RestoringCount ==
    ASSUME NEW l
    PROVE  /\ IsFiniteSet(Restoring(l)) /\ Cardinality(Restoring(l)) \in Nat
           /\ Cardinality(Restoring(l)) <= Cardinality(Frames)
           /\ \A f \in Frames \ Restoring(l) :
                /\ Cardinality(Restoring(l) \cup {f}) = Cardinality(Restoring(l)) + 1
                /\ Cardinality(Restoring(l)) + 1 <= Cardinality(Frames)
  <1>1. Restoring(l) \in SUBSET Frames
    BY DEF Restoring
  <1>2. IsFiniteSet(Restoring(l)) /\ Cardinality(Restoring(l)) <= Cardinality(Frames)
    BY <1>1, FramesFinite, FS_Subset
  <1>3. Cardinality(Restoring(l)) \in Nat
    BY <1>2, FS_CardinalityType
  <1>4. ASSUME NEW f \in Frames \ Restoring(l)
        PROVE  /\ Cardinality(Restoring(l) \cup {f}) = Cardinality(Restoring(l)) + 1
               /\ Cardinality(Restoring(l)) + 1 <= Cardinality(Frames)
    <2>1. Cardinality(Restoring(l) \cup {f}) = Cardinality(Restoring(l)) + 1
      BY <1>2, FS_AddElement
    <2>2. Restoring(l) \cup {f} \in SUBSET Frames
      BY <1>1
    <2>3. Cardinality(Restoring(l) \cup {f}) <= Cardinality(Frames)
      BY <2>2, FramesFinite, FS_Subset
    <2> QED BY <2>1, <2>3
  <1> QED BY <1>2, <1>3, <1>4

\* A link whose counter and whose restoring frames are the same.
LEMMA LowSame ==
    ASSUME Low, NEW l \in Made, Restoring(l)' = Restoring(l), link'[l].ref = link[l].ref
    PROVE  link'[l].ref < 0 => link'[l].ref <= Closed + Cardinality(Restoring(l)')
BY DEF Low

LEMMA RestoringBut ==
    ASSUME NEW f \in Frames, OthersSame(f), NEW l,
           ~(call[f].pc = "restore" /\ call[f].link = l),
           ~(call'[f].pc = "restore" /\ call'[f].link = l)
    PROVE  Restoring(l)' = Restoring(l)
BY DEF OthersSame, Restoring

StaysNegative == \A l \in Made : link[l].ref < 0 => link'[l].ref < 0

LEMMA JoinsLow ==
    ASSUME NEW f \in Frames, Shape, Low, Joins(f) PROVE Low' /\ StaysNegative
  <1> DEFINE l == call[f].link
  <1> SUFFICES ASSUME NEW k \in Made
               PROVE  /\ link'[k].ref < 0 => link'[k].ref <= Closed + Cardinality(Restoring(k)')
                      /\ link[k].ref < 0 => link'[k].ref < 0
    <2>1. Made' = Made
      <3>1. \A k \in Links : link'[k].file = link[k].file
        BY JoinsFacts DEF LinksBut, SameButRef
      <3> QED BY <3>1 DEF Made
    <2> QED BY <2>1 DEF Low, StaysNegative
  <1>1. CASE k # l
    <2>1. Restoring(k)' = Restoring(k)
      BY <1>1, JoinsFacts, RestoringBut DEF Roles
    <2>2. link'[k].ref = link[k].ref
      BY <1>1, JoinsFacts DEF LinksBut, Made
    <2> QED BY <2>1, <2>2, LowSame
  <1>2. CASE k = l
    <2>1. /\ link[k].ref \in Int /\ link'[k].ref = link[k].ref + 1
          /\ f \notin Restoring(k) /\ (link'[k].ref > 0 \/ call'[f].pc = "restore")
          /\ call'[f].link = k /\ OthersSame(f)
      BY <1>2, JoinsFacts DEF Restoring, Roles
    <2>2. link[k].ref < 0 => link[k].ref <= Closed + Cardinality(Restoring(k))
      BY DEF Low
    <2>3. /\ Cardinality(Restoring(k)) \in Nat
          /\ Cardinality(Restoring(k)) + 1 <= Cardinality(Frames)
          /\ Cardinality(Restoring(k) \cup {f}) = Cardinality(Restoring(k)) + 1
      BY <2>1, RestoringCount
    <2>4. link[k].ref < 0 => link'[k].ref < 0
      BY <2>1, <2>2, <2>3, FramesFinite
    <2>5. ASSUME link'[k].ref < 0 PROVE link'[k].ref <= Closed + Cardinality(Restoring(k)')
      <3>1. call'[f].pc = "restore"
        BY <2>1, <2>5
      <3>2. Restoring(k)' = Restoring(k) \cup {f}
        BY <2>1, <3>1 DEF Restoring, OthersSame
      <3>3. link[k].ref < 0
        BY <2>1, <2>5
      <3> QED BY <2>1, <2>2, <2>3, <3>2, <3>3, FramesFinite
    <2> QED BY <2>4, <2>5
  <1> QED BY <1>1, <1>2

LEMMA RestoreLow ==
    ASSUME NEW f \in Frames, Shape, Low, Restore(f) PROVE Low' /\ StaysNegative
  <1> DEFINE l == call[f].link
  <1> SUFFICES ASSUME NEW k \in Made
               PROVE  /\ link'[k].ref < 0 => link'[k].ref <= Closed + Cardinality(Restoring(k)')
                      /\ link[k].ref < 0 => link'[k].ref < 0
    <2>1. Made' = Made
      <3>1. \A k \in Links : link'[k].file = link[k].file
        BY RestoreFacts DEF LinksBut, SameButRef
      <3> QED BY <3>1 DEF Made
    <2> QED BY <2>1 DEF Low, StaysNegative
  <1>1. CASE k # l
    <2>1. Restoring(k)' = Restoring(k)
      BY <1>1, RestoreFacts, RestoringBut
    <2>2. link'[k].ref = link[k].ref
      BY <1>1, RestoreFacts DEF LinksBut, Made
    <2> QED BY <2>1, <2>2, LowSame
  <1>2. CASE k = l
    <2>1. link'[k].ref = Closed
      BY <1>2, RestoreFacts
    <2>2. Cardinality(Restoring(k)') \in Nat
      <3>1. Restoring(k)' \in SUBSET Frames
        BY DEF Restoring
      <3> QED BY <3>1, FramesFinite, FS_Subset, FS_CardinalityType
    <2>3. Closed < 0 /\ Closed <= Closed + Cardinality(Restoring(k)')
      BY <2>2, FramesFinite
    <2> HIDE DEF l
    <2> QED BY <2>1, <2>3
  <1> QED BY <1>1, <1>2

LEMMA DropsLow ==
    ASSUME NEW f \in Frames, Shape, Low, Drops(f) PROVE Low' /\ StaysNegative
  <1> DEFINE l == call[f].link
  <1> SUFFICES ASSUME NEW k \in Made
               PROVE  /\ link'[k].ref < 0 => link'[k].ref <= Closed + Cardinality(Restoring(k)')
                      /\ link[k].ref < 0 => link'[k].ref < 0
    <2>1. Made' = Made
      <3>1. \A k \in Links : link'[k].file = link[k].file
        BY DropsFacts DEF LinksBut, SameButRef
      <3> QED BY <3>1 DEF Made
    <2> QED BY <2>1 DEF Low, StaysNegative
  <1>1. CASE k # l
    <2>1. Restoring(k)' = Restoring(k)
      BY <1>1, DropsFacts, RestoringBut DEF Roles
    <2>2. link'[k].ref = link[k].ref
      BY <1>1, DropsFacts DEF LinksBut, Made
    <2> QED BY <2>1, <2>2, LowSame
  <1>2. CASE k = l
    <2>1. link[k].ref \in Nat /\ (link'[k].ref = Closed \/ link'[k].ref \in Nat)
      <3>1. \/ link[l].ref > 1 /\ link'[l].ref = link[l].ref - 1
            \/ link'[l].ref = Closed
        BY DropsFacts
      <3>2. link[l].ref \in Nat
        BY DropsFacts
      <3> HIDE DEF l
      <3>3. link'[l].ref = Closed \/ link'[l].ref \in Nat
        BY <3>1, <3>2
      <3> QED BY <1>2, <3>2, <3>3
    <2>2. Cardinality(Restoring(k)') \in Nat
      <3>1. Restoring(k)' \in SUBSET Frames
        BY DEF Restoring
      <3> QED BY <3>1, FramesFinite, FS_Subset, FS_CardinalityType
    <2>3. Closed < 0 /\ Closed <= Closed + Cardinality(Restoring(k)')
      BY <2>2, FramesFinite
    <2> HIDE DEF l
    <2>4. ~(link[k].ref < 0)
      BY <2>1
    <2>5. link'[k].ref < 0 => link'[k].ref = Closed
      BY <2>1
    <2> QED BY <2>3, <2>4, <2>5
  <1> QED BY <1>1, <1>2

\* No counter moves, and nobody starts or ends restoring one.
LEMMA LowKept ==
    ASSUME Shape, Low,
           \A k \in Made : link'[k].ref = link[k].ref,
           \A k \in Made' \ Made : link'[k].ref = 0,
           \A g \in Frames : /\ call[g].pc = "restore" <=> call'[g].pc = "restore"
                             /\ call[g].pc = "restore" => call'[g].link = call[g].link
    PROVE  Low' /\ StaysNegative
  <1>1. \A k : Restoring(k)' = Restoring(k)
    BY DEF Restoring
  <1>2. StaysNegative
    BY DEF StaysNegative
  <1>3. ASSUME NEW k \in Made'
        PROVE  link'[k].ref < 0 => link'[k].ref <= Closed + Cardinality(Restoring(k)')
    <2>1. CASE k \in Made
      BY <1>1, <2>1, LowSame
    <2>2. CASE k \notin Made
      BY <2>2, <1>3
    <2> QED BY <2>1, <2>2
  <1> QED BY <1>2, <1>3 DEF Low

LEMMA NextLow ==
    ASSUME Shape, Low, [Next]_vars PROVE Low' /\ StaysNegative
  <1>1. CASE Calm
    <2>1. \A k \in Links : link'[k].ref = link[k].ref /\ link'[k].file = link[k].file
      BY <1>1 DEF Calm, SameLink
    <2>2. Made' = Made
      BY <2>1 DEF Made
    <2>3. \A g \in Frames : /\ call[g].pc = "restore" <=> call'[g].pc = "restore"
                            /\ call[g].pc = "restore" => call'[g].link = call[g].link
      BY <1>1 DEF Calm, SameRole, Roles, Users
    <2> QED BY <2>1, <2>2, <2>3, LowKept DEF Made
  <1>2. ASSUME NEW f \in Frames, Joins(f) \/ Restore(f) \/ Drops(f) PROVE Low' /\ StaysNegative
    BY <1>2, JoinsLow, RestoreLow, DropsLow
  <1>3. ASSUME NEW f \in Frames, Borrows(f) \/ GivesUp(f) PROVE Low' /\ StaysNegative
    <2>1. /\ link' = link /\ OthersSame(f) /\ call[f].pc # "restore" /\ call'[f].pc # "restore"
      BY <1>3, BorrowsFacts, GivesUpFacts DEF Roles
    <2> QED BY <2>1, MadeSame, LowKept DEF OthersSame
  <1>4. ASSUME NEW f \in Frames, RunClosers(f) PROVE Low' /\ StaysNegative
    <2>1. /\ \A k \in Links : link'[k].ref = link[k].ref /\ link'[k].file = link[k].file
          /\ OthersSame(f) /\ call[f].pc # "restore" /\ call'[f].pc # "restore"
      BY <1>4, RunClosersFacts DEF LinksBut, Roles
    <2>2. Made' = Made
      BY <2>1 DEF Made
    <2> QED BY <2>1, <2>2, LowKept DEF OthersSame, Made
  <1>5. ASSUME NEW f \in Frames, FetchOwn(f) PROVE Low' /\ StaysNegative
    <2>1. PICK l \in Links : Fresh(l)
      BY <1>5, FetchOwnFacts
    <2>2. OthersSame(f) /\ call[f].pc # "restore" /\ call'[f].pc # "restore"
      BY <1>5, FetchOwnFacts DEF Roles
    <2> QED BY <2>1, <2>2, LowKept DEF Fresh, OthersSame, LinksBut, Made
  <1>6. ASSUME NEW f \in Frames, Wrap(f) PROVE Low' /\ StaysNegative
    <2>1. PICK l \in Links : Fresh(l)
      BY <1>6, WrapFacts
    <2>2. \A g \in Frames : \/ call'[g] = call[g]
                            \/ call[g].pc # "restore" /\ call'[g].pc # "restore"
      BY <1>6, WrapFacts DEF Roles
    <2>3. /\ \A k \in Made : link'[k].ref = link[k].ref
          /\ \A k \in Made' \ Made : link'[k].ref = 0
      BY <2>1 DEF Fresh, LinksBut, Made
    <2> QED BY <2>2, <2>3, LowKept
  <1> QED BY <1>1, <1>2, <1>3, <1>4, <1>5, <1>6, Steps

-----------------------------------------------------------------------------
(* Who uses a link without a reference: only one whose resources may close. *)

Loose(l) == link[l].kind = "expiring" \/ (link[l].kind = "plain" /\ link[l].ref < 0)
FrameRefs(g) ==
    /\ call[g].pc = "restore" => link[call[g].link].ref < 0
    /\ call[g].pc \in Users /\ ~call[g].counts => Loose(call[g].link)
LinkRefs(l) ==
    link[l].below # None =>
        /\ ~link[l].counts => Loose(link[l].below)
        /\ link[l].kind = "required" => link[link[l].below].kind = "required"
Refs == (\A g \in Frames : FrameRefs(g)) /\ (\A l \in Links : LinkRefs(l))

Kept == /\ Made \subseteq Made' /\ StaysNegative
        /\ \A l \in Made : link'[l].kind = link[l].kind

LEMMA NextKept == ASSUME Shape, Low, [Next]_vars PROVE Kept
  <1>1. CASE Calm
    <2>1. \A l \in Links : link'[l].kind = link[l].kind /\ link'[l].file = link[l].file
      BY <1>1 DEF Calm, SameLink
    <2> QED BY <2>1, NextLow DEF Kept, Made
  <1>2. ASSUME NEW f \in Frames, Joins(f) \/ Restore(f) \/ Drops(f) PROVE Kept
    <2>1. \A l \in Links : link'[l].kind = link[l].kind /\ link'[l].file = link[l].file
      BY <1>2, JoinsFacts, RestoreFacts, DropsFacts DEF LinksBut, SameButRef
    <2> QED BY <2>1, NextLow DEF Kept, Made
  <1>3. ASSUME NEW f \in Frames, Borrows(f) \/ GivesUp(f) PROVE Kept
    <2>1. link' = link
      BY <1>3 DEF Borrows, GivesUp
    <2> QED BY <2>1, NextLow DEF Kept, Made
  <1>4. ASSUME NEW f \in Frames, RunClosers(f) PROVE Kept
    <2>1. \A l \in Links : link'[l].kind = link[l].kind /\ link'[l].file = link[l].file
      BY <1>4, RunClosersFacts DEF LinksBut
    <2> QED BY <2>1, NextLow DEF Kept, Made
  <1>5. ASSUME NEW f \in Frames, FetchOwn(f) \/ Wrap(f) PROVE Kept
    <2>1. PICK l \in Links : Fresh(l)
      BY <1>5, FetchOwnFacts, WrapFacts
    <2> QED BY <2>1, NextLow DEF Kept, Fresh, LinksBut, Made
  <1> QED BY <1>1, <1>2, <1>3, <1>4, <1>5, Steps

LEMMA LooseStays == ASSUME Kept, NEW l \in Made, Loose(l) PROVE Loose(l)'
BY DEF Kept, StaysNegative, Loose

LEMMA LooseFrame ==
    ASSUME Shape, Kept, NEW g \in Frames, SameRole(call[g], call'[g]), FrameRefs(g)
    PROVE  FrameRefs(g)'
  <1>1. call[g].pc \in Roles => call[g].link \in Made
    BY FrameFacts DEF Roles, Users, Linked
  <1>2. CASE call[g].pc \notin Roles /\ call'[g].pc \notin Roles
    BY <1>2 DEF FrameRefs, Roles
  <1>3. CASE call[g].pc \in Users /\ call'[g].pc \in Users /\ call[g].link = call'[g].link
    <2>1. call[g].link \in Made /\ (call[g].counts <=> call'[g].counts) /\ call'[g].pc # "restore"
      BY <1>1, <1>3 DEF SameRole, Roles, Users
    <2>2. ASSUME ~call'[g].counts PROVE Loose(call[g].link)'
      <3>1. Loose(call[g].link)
        BY <1>3, <2>1, <2>2 DEF FrameRefs
      <3> DEFINE k == call[g].link
      <3> QED BY <1>3, <2>1, <3>1 DEF Kept, StaysNegative, Loose
    <2> QED BY <1>3, <2>1, <2>2 DEF FrameRefs
  <1>4. CASE call'[g] = call[g]
    <2>1. CASE call[g].pc \notin Roles
      BY <1>4, <2>1, <1>2
    <2>2. CASE call[g].pc \in Roles
      <3>1. call[g].link \in Made
        BY <1>1, <2>2
      <3> QED BY <1>4, <3>1 DEF FrameRefs, Kept, StaysNegative, Loose
    <2> QED BY <2>1, <2>2
  <1> QED BY <1>2, <1>3, <1>4 DEF SameRole

LEMMA LooseLink ==
    ASSUME Shape, Kept, NEW l \in Made, LinkRefs(l),
           link'[l].below = link[l].below, link'[l].counts <=> link[l].counts
    PROVE  LinkRefs(l)'
  <1>1. link[l].below # None => link[l].below \in Made
    BY DEF Shape, LinksOK, LinkOK, Made
  <1> QED BY <1>1 DEF LinkRefs, Kept, StaysNegative, Loose

\* A step of one frame that makes no link and leaves those below alone.
LEMMA RefsBy ==
    ASSUME Shape, Shape', Refs, Kept, Made' = Made, NEW f \in Frames, OthersSame(f),
           \A k \in Links : \/ link'[k].below = None
                            \/ link'[k].below = link[k].below /\ (link'[k].counts <=> link[k].counts),
           FrameRefs(f)'
    PROVE  Refs'
  <1>1. \A g \in Frames : FrameRefs(g)'
    <2> TAKE g \in Frames
    <2>1. CASE g = f
      BY <2>1
    <2>2. CASE g # f
      <3>1. SameRole(call[g], call'[g])
        BY <2>2 DEF OthersSame, SameRole
      <3> QED BY <3>1, LooseFrame DEF Refs
    <2> QED BY <2>1, <2>2
  <1>2. \A k \in Links : LinkRefs(k)'
    <2> TAKE k \in Links
    <2>1. CASE link'[k].below = None
      BY <2>1 DEF LinkRefs
    <2>2. CASE link'[k].below # None
      <3>1. k \in Made
        BY <2>2 DEF Shape, LinksOK, LinkOK, Unmade
      <3> QED BY <2>2, <3>1, LooseLink DEF Refs, Made
    <2> QED BY <2>1, <2>2
  <1> QED BY <1>1, <1>2 DEF Refs

LEMMA NextRefs ==
    ASSUME Shape, Shape', Low, Refs, [Next]_vars PROVE Refs'
  <1>0. Kept
    BY NextKept
  <1>1. CASE Calm
    <2>1. \A k \in Links : SameLink(link[k], link'[k])
      BY <1>1 DEF Calm
    <2>2. \A g \in Frames : FrameRefs(g)'
      BY <1>0, <1>1, LooseFrame DEF Calm, Refs
    <2>3. ASSUME NEW k \in Links PROVE LinkRefs(k)'
      <3>1. CASE k \in Made
        BY <1>0, <2>1, <3>1, LooseLink DEF SameLink, Refs
      <3>2. CASE k \notin Made
        BY <2>1, <3>2 DEF SameLink, LinkRefs, Shape, LinksOK, LinkOK, Unmade
      <3> QED BY <3>1, <3>2
    <2> QED BY <2>2, <2>3 DEF Refs
  <1>2. ASSUME NEW f \in Frames, Joins(f) PROVE Refs'
    <2> DEFINE l == call[f].link
    <2>1. /\ \A k \in Links : /\ link'[k].below = link[k].below /\ link'[k].counts = link[k].counts
                              /\ link'[k].file = link[k].file
          /\ OthersSame(f)
      BY <1>2, JoinsFacts DEF LinksBut, SameButRef
    <2>2. FrameRefs(f)'
      <3>1. /\ l \in Made /\ link[l].ref \in Int /\ call'[f].link = l
            /\ \/ call'[f].pc = "held" /\ call'[f].counts
               \/ call'[f].pc = "restore" /\ link[l].ref + 1 <= 0
        BY <1>2, JoinsFacts
      <3>2. CASE call'[f].pc = "held" /\ call'[f].counts
        BY <3>2 DEF FrameRefs
      <3>3. CASE call'[f].pc = "restore" /\ link[l].ref + 1 <= 0
        <4>1. link[l].ref < 0
          BY <3>1, <3>3
        <4>2. link'[l].ref < 0
          <5> HIDE DEF l
          <5> QED BY <1>0, <3>1, <4>1 DEF Kept, StaysNegative
        <4> QED BY <3>1, <3>3, <4>2 DEF FrameRefs, Users
      <3> QED BY <3>1, <3>2, <3>3
    <2>3. Made' = Made
      BY <2>1 DEF Made
    <2> QED BY <1>0, <2>1, <2>2, <2>3, RefsBy
  <1>3. ASSUME NEW f \in Frames, Borrows(f) PROVE Refs'
    <2>1. FrameRefs(f)'
      BY <1>3, BorrowsFacts DEF FrameRefs, Loose
    <2>2. OthersSame(f) /\ link' = link
      BY <1>3, BorrowsFacts
    <2> QED BY <1>0, <2>1, <2>2, MadeSame, RefsBy
  <1>4. ASSUME NEW f \in Frames, Restore(f) PROVE Refs'
    <2> DEFINE l == call[f].link
    <2>1. /\ \A k \in Links : /\ link'[k].below = link[k].below /\ link'[k].counts = link[k].counts
                              /\ link'[k].file = link[k].file
          /\ OthersSame(f)
      BY <1>4, RestoreFacts DEF LinksBut, SameButRef
    <2>2. FrameRefs(f)'
      <3>1. /\ l \in Links /\ link'[l].ref < 0 /\ link'[l].kind = link[l].kind
            /\ \/ call'[f].pc = "held" /\ call'[f].link = l /\ link[l].kind # "required"
               \/ call'[f].pc = "flight"
        BY <1>4, RestoreFacts, FramesFinite DEF SameButRef
      <3>2. link[l].kind \in {"required", "plain", "expiring"}
        BY <3>1 DEF Shape, LinksOK, LinkStates
      <3> QED BY <3>1, <3>2 DEF FrameRefs, Loose, Users
    <2>3. Made' = Made
      BY <2>1 DEF Made
    <2> QED BY <1>0, <2>1, <2>2, <2>3, RefsBy
  <1>5. ASSUME NEW f \in Frames, GivesUp(f) PROVE Refs'
    <2>1. OthersSame(f) /\ link' = link /\ call'[f].pc \notin Roles
      BY <1>5, GivesUpFacts
    <2>2. FrameRefs(f)'
      BY <2>1 DEF FrameRefs, Roles
    <2> QED BY <1>0, <2>1, <2>2, MadeSame, RefsBy
  <1>6. ASSUME NEW f \in Frames, Drops(f) PROVE Refs'
    <2>1. /\ \A k \in Links : /\ link'[k].below = link[k].below /\ link'[k].counts = link[k].counts
                              /\ link'[k].file = link[k].file
          /\ OthersSame(f)
      BY <1>6, DropsFacts DEF LinksBut, SameButRef
    <2>2. call'[f].pc \notin Users \cup {"restore"}
      BY <1>6, DropsFacts DEF Roles, Users
    <2>3. FrameRefs(f)'
      BY <2>2 DEF FrameRefs
    <2>4. Made' = Made
      BY <2>1 DEF Made
    <2> QED BY <1>0, <2>1, <2>3, <2>4, RefsBy
  <1>7. ASSUME NEW f \in Frames, RunClosers(f) PROVE Refs'
    <2> DEFINE l == call[f].link
    <2>1. /\ \A k \in Links : /\ \/ link'[k].below = None
                                 \/ link'[k].below = link[k].below /\ link'[k].counts = link[k].counts
                              /\ link'[k].file = link[k].file
          /\ OthersSame(f)
      BY <1>7, RunClosersFacts DEF LinksBut
    <2>2. Made' = Made
      BY <2>1 DEF Made
    <2>3. FrameRefs(f)'
      <3>1. CASE call'[f].pc \notin Roles
        BY <3>1 DEF FrameRefs, Roles
      <3>2. CASE /\ l \in Links /\ link[l].below \in Made /\ call'[f].pc = "close"
                 /\ call'[f].link = link[l].below /\ call'[f].counts = link[l].counts
        <4>1. link[l].below # None
          BY <3>2, Constants DEF Made
        <4>2. ~link[l].counts => Loose(link[l].below)
          BY <3>2, <4>1 DEF Refs, LinkRefs
        <4>3. ASSUME ~call'[f].counts
              PROVE  \/ link'[call'[f].link].kind = "expiring"
                     \/ link'[call'[f].link].kind = "plain" /\ link'[call'[f].link].ref < 0
          <5> HIDE DEF l
          <5> QED BY <1>0, <3>2, <4>2, <4>3 DEF Kept, StaysNegative, Loose
        <4> QED BY <3>2, <4>3 DEF FrameRefs, Loose
      <3> QED BY <1>7, <3>1, <3>2, RunClosersFacts
    <2> QED BY <1>0, <2>1, <2>2, <2>3, RefsBy
  <1>8. ASSUME NEW f \in Frames, FetchOwn(f) PROVE Refs'
    <2> PICK l \in Links : /\ Fresh(l) /\ link'[l].below = None
                           /\ OthersSame(f) /\ call'[f].pc \notin Roles
      BY <1>8, FetchOwnFacts
    <2>1. \A g \in Frames : FrameRefs(g)'
      <3> TAKE g \in Frames
      <3>1. CASE g = f
        BY <3>1 DEF FrameRefs, Roles
      <3>2. CASE g # f
        BY <1>0, <3>2, LooseFrame DEF OthersSame, SameRole, Refs
      <3> QED BY <3>1, <3>2
    <2>2. ASSUME NEW k \in Links PROVE LinkRefs(k)'
      <3>1. CASE link'[k].below = None
        BY <3>1 DEF LinkRefs
      <3>2. CASE link'[k].below # None
        <4>1. k # l /\ link'[k] = link[k]
          BY <3>2 DEF Fresh, LinksBut
        <4>2. k \in Made
          BY <3>2, <4>1 DEF Shape, LinksOK, LinkOK, Unmade
        <4> QED BY <1>0, <4>1, <4>2, LooseLink DEF Refs
      <3> QED BY <3>1, <3>2
    <2> QED BY <2>1, <2>2 DEF Refs
  <1>9. ASSUME NEW f \in Frames, Wrap(f) PROVE Refs'
    <2> DEFINE h == Nested(f)
               b == call[h].link
    <2>1. /\ h \in Frames /\ b \in Made /\ call[h].pc = "held"
          /\ call'[f].pc \notin Roles /\ call'[h].pc \notin Roles
          /\ \A g \in Frames \ {f, h} : call'[g] = call[g]
      BY <1>9, WrapFacts
    <2> PICK l \in Links : /\ Fresh(l) /\ link'[l].below = b /\ link'[l].counts = call[h].counts
                           /\ link'[l].kind = "required" => link[b].kind = "required"
      BY <1>9, WrapFacts
    <2>2. \A g \in Frames : FrameRefs(g)'
      <3> TAKE g \in Frames
      <3>1. CASE g \in {f, h}
        <4>1. call'[g].pc \notin Roles
          BY <2>1, <3>1
        <4> QED BY <4>1 DEF FrameRefs, Roles
      <3>2. CASE g \notin {f, h}
        BY <1>0, <2>1, <3>2, LooseFrame DEF SameRole, Refs
      <3> QED BY <3>1, <3>2
    <2>3. LinkRefs(l)'
      <3>1. ~call[h].counts => Loose(b)
        BY <2>1 DEF Refs, FrameRefs, Users
      <3> HIDE DEF b, h
      <3> QED BY <1>0, <2>1, <3>1 DEF LinkRefs, Kept, StaysNegative, Loose
    <2>4. ASSUME NEW k \in Links PROVE LinkRefs(k)'
      <3>1. CASE k = l
        BY <2>3, <3>1
      <3>2. CASE k # l /\ k \notin Made
        BY <3>2 DEF Fresh, LinksBut, LinkRefs, Shape, LinksOK, LinkOK, Unmade
      <3>3. CASE k # l /\ k \in Made
        <4>1. link'[k] = link[k]
          BY <3>3 DEF Fresh, LinksBut
        <4> QED BY <1>0, <3>3, <4>1, LooseLink DEF Refs
      <3> QED BY <3>1, <3>2, <3>3
    <2> QED BY <2>2, <2>4 DEF Refs
  <1> QED BY <1>1, <1>2, <1>3, <1>4, <1>5, <1>6, <1>7, <1>8, <1>9, Steps

-----------------------------------------------------------------------------
(* The counter of a link is the number of its holders.                      *)

Party(k) == <<k, "link">>
Parties  == Frames \cup Links \X {"link"}

LEMMA PartyFacts ==
    /\ \A k \in Links : Party(k) \in Parties /\ Party(k) \notin Frames
    /\ \A j, k \in Links : Party(j) = Party(k) => j = k
    /\ \A p \in Parties : p \in Frames \/ \E k \in Links : p = Party(k)
    /\ Frames \subseteq Parties
BY LinkAssumption DEF Party, Parties, Links, Frames

LEMMA HoldersAre ==
    ASSUME NEW l
    PROVE  /\ Holders(l) \subseteq Parties
           /\ \A g \in Frames : g \in Holders(l) <=> call[g].link = l /\ call[g].counts
           /\ \A k \in Links : Party(k) \in Holders(l) <=> link[k].below = l /\ link[k].counts
  <1>1. Holders(l) \subseteq Parties
    BY DEF Holders, Parties
  <1>2. \A g \in Frames : g \in Holders(l) <=> call[g].link = l /\ call[g].counts
    BY LinkAssumption DEF Holders, Frames, Links
  <1>3. \A k \in Links : Party(k) \in Holders(l) <=> link[k].below = l /\ link[k].counts
    BY PartyFacts DEF Holders, Party
  <1> QED BY <1>1, <1>2, <1>3

\* The holders after a step are known by their members.
LEMMA HoldersWillBe ==
    ASSUME NEW l, NEW H \in SUBSET Parties,
           \A g \in Frames : g \in H <=> call'[g].link = l /\ call'[g].counts,
           \A k \in Links : Party(k) \in H <=> link'[k].below = l /\ link'[k].counts
    PROVE  Holders(l)' = H
  <1>1. /\ Holders(l)' \subseteq Parties
        /\ \A g \in Frames : g \in Holders(l)' <=> call'[g].link = l /\ call'[g].counts
        /\ \A k \in Links : Party(k) \in Holders(l)' <=> link'[k].below = l /\ link'[k].counts
    <2>1. Holders(l)' \subseteq Parties
      BY DEF Holders, Parties
    <2>2. \A g \in Frames : g \in Holders(l)' <=> call'[g].link = l /\ call'[g].counts
      BY LinkAssumption DEF Holders, Frames, Links
    <2>3. \A k \in Links : Party(k) \in Holders(l)' <=> link'[k].below = l /\ link'[k].counts
      BY PartyFacts DEF Holders, Party
    <2> QED BY <2>1, <2>2, <2>3
  <1> QED BY <1>1, PartyFacts

LEMMA PartiesFinite == IsFiniteSet(Parties)
  <1>1. IsFiniteSet(Links \X {"link"})
    <2>1. 1 \in Int /\ MaxLink \in Int
      BY LinkAssumption
    <2>2. IsFiniteSet(1 .. MaxLink)
      BY <2>1, FS_Interval
    <2>3. IsFiniteSet({"link"})
      BY FS_Singleton
    <2> QED BY <2>2, <2>3, FS_Product DEF Links
  <1> QED BY <1>1, FramesFinite, FS_Union DEF Parties

LEMMA HoldersFinite ==
    ASSUME NEW l PROVE IsFiniteSet(Holders(l)) /\ Cardinality(Holders(l)) \in Nat
BY PartiesFinite, HoldersAre, FS_Subset, FS_CardinalityType

LEMMA Exchange ==
    ASSUME NEW S, IsFiniteSet(S), NEW x \in S, NEW y, y \notin S
    PROVE  Cardinality((S \ {x}) \cup {y}) = Cardinality(S)
  <1>1. IsFiniteSet(S \ {x}) /\ Cardinality(S \ {x}) = Cardinality(S) - 1
    BY FS_RemoveElement
  <1>2. Cardinality((S \ {x}) \cup {y}) = Cardinality(S \ {x}) + 1
    BY <1>1, FS_AddElement
  <1> QED BY <1>1, <1>2, FS_CardinalityType

CountOf(l) == link[l].kind # "expiring" =>
                 /\ link[l].ref >= 0 => link[l].ref = Cardinality(Holders(l))
                 /\ link[l].ref < 0 => Holders(l) = {}
Count == \A l \in Made : CountOf(l)

LEMMA CountSame ==
    ASSUME NEW l, CountOf(l), link'[l].kind = link[l].kind, link'[l].ref = link[l].ref,
           Holders(l)' = Holders(l)
    PROVE  CountOf(l)'
BY DEF CountOf

\* Who is no holder before and after does not matter.
LEMMA HoldersSame ==
    ASSUME NEW l,
           \A g \in Frames : (call'[g].link = l /\ call'[g].counts) <=> (call[g].link = l /\ call[g].counts),
           \A k \in Links : (link'[k].below = l /\ link'[k].counts) <=> (link[k].below = l /\ link[k].counts)
    PROVE  Holders(l)' = Holders(l)
BY HoldersAre, HoldersWillBe

\* Nobody holds a link that is not made.
LEMMA UnmadeIsFree ==
    ASSUME Shape, NEW l \in Links \ Made PROVE Holders(l) = {}
  <1>1. \A g \in Frames : call[g].counts => call[g].link \in Made
    BY FrameFacts DEF FrameOK, Users, Linked
  <1>2. \A k \in Links : link[k].below = l => FALSE
    BY Constants DEF Shape, LinksOK, LinkOK
  <1> QED BY <1>1, <1>2, HoldersAre, PartyFacts

LEMMA CalmHolds ==
    ASSUME Shape, Calm, NEW l, NEW g \in Frames
    PROVE  (call'[g].link = l /\ call'[g].counts) <=> (call[g].link = l /\ call[g].counts)
  <1>1. call[g].counts => call[g].pc \in Users
    BY FrameFacts DEF FrameOK
  <1>2. SameRole(call[g], call'[g])
    BY DEF Calm
  <1> QED BY <1>1, <1>2 DEF SameRole, Roles

LEMMA CalmCount ==
    ASSUME Shape, Shape', Count, Calm PROVE Count'
  <1>1. \A k \in Links : SameLink(link[k], link'[k])
    BY DEF Calm
  <1>2. Made' = Made
    BY <1>1 DEF SameLink, Made
  <1>3. ASSUME NEW l \in Made PROVE CountOf(l)'
    <2>2. Holders(l)' = Holders(l)
      BY <1>1, CalmHolds, HoldersSame DEF SameLink
    <2> QED BY <1>1, <2>2, CountSame DEF SameLink, Count, Made
  <1> QED BY <1>2, <1>3 DEF Count

LEMMA JoinsHolders ==
    ASSUME Shape, NEW f \in Frames, Joins(f), NEW k
    PROVE  IF k = call[f].link /\ call'[f].counts
             THEN f \notin Holders(k) /\ Holders(k)' = Holders(k) \cup {f}
             ELSE Holders(k)' = Holders(k)
  <1> DEFINE l == call[f].link
  <1>1. /\ \A j \in Links : link'[j].below = link[j].below /\ link'[j].counts = link[j].counts
        /\ OthersSame(f) /\ ~call[f].counts /\ call'[f].link = l
    BY JoinsFacts DEF LinksBut, SameButRef
  <1>2. CASE ~(k = l /\ call'[f].counts)
    BY <1>1, <1>2, HoldersSame DEF OthersSame
  <1>3. CASE k = l /\ call'[f].counts
    <2>1. Holders(k) \cup {f} \in SUBSET Parties
      BY HoldersAre, PartyFacts
    <2>2. \A g \in Frames : g \in Holders(k) \cup {f} <=> call'[g].link = k /\ call'[g].counts
      BY <1>1, <1>3, HoldersAre DEF OthersSame
    <2>3. \A j \in Links : Party(j) \in Holders(k) \cup {f} <=> link'[j].below = k /\ link'[j].counts
      BY <1>1, HoldersAre, PartyFacts
    <2>4. Holders(k)' = Holders(k) \cup {f}
      BY <2>1, <2>2, <2>3, HoldersWillBe
    <2> QED BY <1>1, <1>3, <2>4, HoldersAre
  <1> QED BY <1>2, <1>3

LEMMA JoinsCount ==
    ASSUME Shape, Count, StaysNegative, NEW f \in Frames, Joins(f) PROVE Count'
  <1> DEFINE l == call[f].link
  <1>1. /\ \A k \in Links : link'[k].file = link[k].file /\ link'[k].kind = link[k].kind
        /\ LinksBut(l)
    BY JoinsFacts DEF LinksBut, SameButRef
  <1>2. Made' = Made
    BY <1>1 DEF Made
  <1>3. ASSUME NEW k \in Made PROVE CountOf(k)'
    <2>1. CASE k # l
      BY <1>1, <2>1, JoinsHolders, CountSame DEF LinksBut, Count, Made
    <2>2. CASE k = l
      <3>1. /\ link[k].ref \in Int /\ link'[k].ref = link[k].ref + 1
            /\ \/ call'[f].counts /\ link'[k].ref > 0
               \/ ~call'[f].counts /\ link'[k].ref <= 0
            /\ link'[k].kind = link[k].kind
        BY <1>1, <2>2, JoinsFacts
      <3>2. link[k].ref < 0 => link'[k].ref < 0
        BY DEF StaysNegative
      <3>3. CASE call'[f].counts /\ link'[k].ref > 0
        <4>1. Cardinality(Holders(k)') = Cardinality(Holders(k)) + 1
          BY <2>2, <3>3, JoinsHolders, HoldersFinite, FS_AddElement
        <4>2. link[k].ref >= 0
          BY <3>1, <3>2, <3>3
        <4> QED BY <3>1, <3>3, <4>1, <4>2 DEF CountOf, Count
      <3>4. CASE ~call'[f].counts /\ link'[k].ref <= 0
        <4>1. Holders(k)' = Holders(k)
          BY <3>4, JoinsHolders
        <4>2. link[k].ref < 0
          BY <3>1, <3>4
        <4>3. link'[k].ref < 0
          BY <3>2, <4>2
        <4> QED BY <3>1, <4>1, <4>2, <4>3 DEF CountOf, Count
      <3> QED BY <3>1, <3>3, <3>4
    <2> QED BY <2>1, <2>2
  <1> QED BY <1>2, <1>3 DEF Count

\* Restoring and giving up leave the holders alone.
LEMMA RestoreCount ==
    ASSUME Shape, Count, Refs, NEW f \in Frames, Restore(f) PROVE Count'
  <1> DEFINE l == call[f].link
  <1>1. /\ \A k \in Links : /\ link'[k].below = link[k].below /\ link'[k].counts = link[k].counts
                            /\ link'[k].file = link[k].file /\ link'[k].kind = link[k].kind
        /\ OthersSame(f) /\ ~call[f].counts /\ ~call'[f].counts
    BY RestoreFacts DEF LinksBut, SameButRef
  <1>2. Made' = Made
    BY <1>1 DEF Made
  <1>3. ASSUME NEW k \in Made PROVE CountOf(k)'
    <2>1. Holders(k)' = Holders(k)
      BY <1>1, HoldersSame DEF OthersSame
    <2>2. CASE k # l
      BY <1>1, <2>1, <2>2, CountSame, RestoreFacts DEF LinksBut, Count, Made
    <2>3. CASE k = l
      <3>1. link[k].ref < 0 /\ link'[k].ref = Closed /\ link'[k].kind = link[k].kind
        BY <1>1, <2>3, RestoreFacts DEF Refs, FrameRefs
      <3>2. link'[k].ref < 0 /\ ~(link'[k].ref >= 0)
        BY <3>1, FramesFinite
      <3> QED BY <2>1, <3>1, <3>2 DEF CountOf, Count
    <2> QED BY <2>2, <2>3
  <1> QED BY <1>2, <1>3 DEF Count

LEMMA BorrowsCount ==
    ASSUME Shape, Count, NEW f \in Frames, Borrows(f) PROVE Count'
  <1>1. OthersSame(f) /\ ~call[f].counts /\ ~call'[f].counts /\ link' = link
    BY BorrowsFacts
  <1>2. \A k \in Made : Holders(k)' = Holders(k)
    BY <1>1, HoldersSame DEF OthersSame
  <1> QED BY <1>1, <1>2, MadeSame, CountSame DEF Count

LEMMA GivesUpCount ==
    ASSUME Shape, Count, Refs, NEW f \in Frames, GivesUp(f) PROVE Count'
  <1> DEFINE l == call[f].link
  <1>1. OthersSame(f) /\ ~call'[f].counts /\ link' = link /\ l \in Made /\ link[l].ref < 0
    BY GivesUpFacts
  <1>2. ASSUME NEW k \in Made PROVE CountOf(k)'
    <2>1. CASE k # l \/ ~call[f].counts
      <3>1. Holders(k)' = Holders(k)
        BY <1>1, <2>1, HoldersSame DEF OthersSame
      <3> QED BY <1>1, <3>1, CountSame DEF Count
    <2>2. CASE k = l /\ call[f].counts
      <3>1. f \in Holders(k)
        BY <2>2, HoldersAre
      <3>2. link[k].kind = "expiring"
        BY <1>1, <2>2, <3>1 DEF Count, CountOf
      <3> QED BY <1>1, <3>2 DEF CountOf
    <2> QED BY <2>1, <2>2
  <1> QED BY <1>1, <1>2, MadeSame DEF Count

LEMMA DropsHolders ==
    ASSUME Shape, NEW f \in Frames, Drops(f), NEW k
    PROVE  IF k = call[f].link /\ call[f].counts
             THEN f \in Holders(k) /\ Holders(k)' = Holders(k) \ {f}
             ELSE Holders(k)' = Holders(k)
  <1> DEFINE l == call[f].link
  <1>1. /\ \A j \in Links : link'[j].below = link[j].below /\ link'[j].counts = link[j].counts
        /\ OthersSame(f) /\ ~call'[f].counts
    BY DropsFacts DEF LinksBut, SameButRef
  <1>2. CASE ~(k = l /\ call[f].counts)
    BY <1>1, <1>2, HoldersSame DEF OthersSame
  <1>3. CASE k = l /\ call[f].counts
    <2>1. Holders(k) \ {f} \in SUBSET Parties
      BY HoldersAre
    <2>2. \A g \in Frames : g \in Holders(k) \ {f} <=> call'[g].link = k /\ call'[g].counts
      BY <1>1, HoldersAre DEF OthersSame
    <2>3. \A j \in Links : Party(j) \in Holders(k) \ {f} <=> link'[j].below = k /\ link'[j].counts
      BY <1>1, HoldersAre, PartyFacts
    <2>4. Holders(k)' = Holders(k) \ {f}
      BY <2>1, <2>2, <2>3, HoldersWillBe
    <2> QED BY <1>3, <2>4, HoldersAre
  <1> QED BY <1>2, <1>3

\* Who lowers the counter of a link holds it; the last one leaves no holder.
LEMMA DropsLast ==
    ASSUME Shape, Count, Refs, NEW f \in Frames, Drops(f),
           NEW k, k = call[f].link, link[k].kind # "expiring"
    PROVE  /\ call[f].counts /\ f \in Holders(k) /\ Holders(k)' = Holders(k) \ {f}
           /\ link[k].ref \in Nat /\ link[k].ref = Cardinality(Holders(k))
           /\ \/ link[k].ref > 1 /\ link'[k].ref = link[k].ref - 1
              \/ link'[k].ref = Closed /\ Holders(k)' = {}
  <1>1. /\ k \in Made /\ link[k].ref \in Nat /\ call[f].pc = "swap"
        /\ \/ link[k].ref > 1 /\ link'[k].ref = link[k].ref - 1
           \/ link[k].ref <= 1 /\ link'[k].ref = Closed
    BY DropsFacts
  <1>2. call[f].counts
    <2>1. ~(link[k].ref < 0)
      BY <1>1
    <2> QED BY <1>1, <2>1 DEF Refs, FrameRefs, Loose, Users
  <1>3. f \in Holders(k) /\ Holders(k)' = Holders(k) \ {f}
    BY <1>2, DropsHolders
  <1>4. link[k].ref = Cardinality(Holders(k))
    BY <1>1 DEF Count, CountOf
  <1>5. ASSUME link[k].ref <= 1 PROVE Holders(k)' = {}
    <2>1. /\ Cardinality(Holders(k)') = Cardinality(Holders(k)) - 1 /\ IsFiniteSet(Holders(k)')
      BY <1>3, HoldersFinite, FS_RemoveElement
    <2>2. Cardinality(Holders(k)') \in Nat
      BY <2>1, FS_CardinalityType
    <2>3. Cardinality(Holders(k)') = 0
      BY <1>1, <1>4, <1>5, <2>1, <2>2
    <2> QED BY <2>1, <2>3, FS_EmptySet
  <1> QED BY <1>1, <1>2, <1>3, <1>4, <1>5

LEMMA DropsCount ==
    ASSUME Shape, Count, Refs, NEW f \in Frames, Drops(f) PROVE Count'
  <1> DEFINE l == call[f].link
  <1>1. /\ \A k \in Links : link'[k].file = link[k].file /\ link'[k].kind = link[k].kind
        /\ LinksBut(l)
    BY DropsFacts DEF LinksBut, SameButRef
  <1>2. Made' = Made
    BY <1>1 DEF Made
  <1>3. ASSUME NEW k \in Made PROVE CountOf(k)'
    <2>1. CASE k # l
      BY <1>1, <2>1, DropsHolders, CountSame DEF LinksBut, Count, Made
    <2>2. CASE k = l /\ link[l].kind = "expiring"
      BY <1>1, <2>2 DEF CountOf, Made
    <2>3. CASE k = l /\ link[l].kind # "expiring"
      <3>1. /\ f \in Holders(k) /\ Holders(k)' = Holders(k) \ {f}
            /\ link[k].ref \in Nat /\ link[k].ref = Cardinality(Holders(k))
            /\ \/ link[k].ref > 1 /\ link'[k].ref = link[k].ref - 1
               \/ link'[k].ref = Closed /\ Holders(k)' = {}
        BY <2>3, DropsLast
      <3>2. Cardinality(Holders(k)') = Cardinality(Holders(k)) - 1
        BY <3>1, HoldersFinite, FS_RemoveElement
      <3> QED BY <3>1, <3>2, FramesFinite DEF CountOf
    <2> QED BY <2>1, <2>2, <2>3
  <1> QED BY <1>2, <1>3 DEF Count

\* One holder takes the place of another.
LEMMA CountExchange ==
    ASSUME NEW k, CountOf(k), link'[k].kind = link[k].kind, link'[k].ref = link[k].ref,
           link[k].ref \in Int,
           NEW p \in Holders(k), NEW q, q \notin Holders(k),
           Holders(k)' = (Holders(k) \ {p}) \cup {q}
    PROVE  CountOf(k)'
  <1>1. Cardinality(Holders(k)') = Cardinality(Holders(k))
    BY HoldersFinite, Exchange
  <1>2. link[k].kind # "expiring" => ~(link[k].ref < 0)
    BY DEF CountOf
  <1> QED BY <1>1, <1>2 DEF CountOf

\* The frame that closes a link takes over its reference of the link below.
LEMMA RunClosersHolders ==
    ASSUME Shape, NEW f \in Frames, RunClosers(f), NEW k \in Made
    PROVE  LET l == call[f].link IN
           IF link[l].below = k /\ link[l].counts
             THEN /\ Party(l) \in Holders(k) /\ f \notin Holders(k)
                  /\ Holders(k)' = (Holders(k) \ {Party(l)}) \cup {f}
             ELSE Holders(k)' = Holders(k)
  <1> DEFINE l == call[f].link
             b == link[l].below
  <1>1. /\ OthersSame(f) /\ ~call[f].counts /\ l \in Links
        /\ \A j \in Links \ {l} : link'[j] = link[j]
        /\ ~link'[l].counts
        /\ \/ b = None /\ ~call'[f].counts
           \/ b \in Made /\ call'[f].link = b /\ call'[f].counts = link[l].counts
    BY RunClosersFacts DEF LinksBut
  <1>2. k # None
    BY Constants DEF Made
  <1>3. CASE b # k \/ ~link[l].counts
    <2>1. ~(call'[f].link = k /\ call'[f].counts)
      BY <1>1, <1>2, <1>3
    <2>2. \A g \in Frames : (call'[g].link = k /\ call'[g].counts) <=> (call[g].link = k /\ call[g].counts)
      BY <1>1, <2>1 DEF OthersSame
    <2>3. \A j \in Links : (link'[j].below = k /\ link'[j].counts) <=> (link[j].below = k /\ link[j].counts)
      BY <1>1, <1>3
    <2>4. Holders(k)' = Holders(k)
      BY <2>2, <2>3, HoldersSame
    <2> QED BY <1>3, <2>4
  <1>4. CASE b = k /\ link[l].counts
    <2>1. Party(l) \in Holders(k) /\ f \notin Holders(k)
      BY <1>1, <1>4, HoldersAre
    <2> DEFINE H == (Holders(k) \ {Party(l)}) \cup {f}
    <2>2. H \in SUBSET Parties
      BY HoldersAre, PartyFacts
    <2>3. \A g \in Frames : g \in H <=> call'[g].link = k /\ call'[g].counts
      <3>1. call'[f].link = k /\ call'[f].counts
        <4> HIDE DEF b
        <4> QED BY <1>1, <1>2, <1>4
      <3>2. Party(l) \notin Frames
        BY <1>1, PartyFacts
      <3> HIDE DEF l, b
      <3> QED BY <1>1, <3>1, <3>2, HoldersAre DEF OthersSame
    <2>4. \A j \in Links : Party(j) \in H <=> link'[j].below = k /\ link'[j].counts
      BY <1>1, HoldersAre, PartyFacts
    <2>5. Holders(k)' = H
      <3> HIDE DEF H
      <3> QED BY <2>2, <2>3, <2>4, HoldersWillBe
    <2> QED BY <1>4, <2>1, <2>5
  <1> QED BY <1>3, <1>4

LEMMA RunClosersCount ==
    ASSUME Shape, Count, NEW f \in Frames, RunClosers(f) PROVE Count'
  <1> DEFINE l == call[f].link
             b == link[l].below
  <1>1. \A k \in Links : /\ link'[k].file = link[k].file /\ link'[k].kind = link[k].kind
                         /\ link'[k].ref = link[k].ref
    BY RunClosersFacts DEF LinksBut
  <1>2. Made' = Made
    BY <1>1 DEF Made
  <1>3. ASSUME NEW k \in Made PROVE CountOf(k)'
    <2>1. k \in Links /\ link[k].ref \in Int
      BY DEF Made, Shape, LinksOK, LinkStates
    <2>2. CASE ~(b = k /\ link[l].counts)
      <3>1. Holders(k)' = Holders(k)
        BY <2>2, RunClosersHolders
      <3> QED BY <1>1, <2>1, <3>1, CountSame DEF Count
    <2>3. CASE b = k /\ link[l].counts
      <3>1. /\ Party(l) \in Holders(k) /\ f \notin Holders(k)
            /\ Holders(k)' = (Holders(k) \ {Party(l)}) \cup {f}
        BY <2>3, RunClosersHolders
      <3> HIDE DEF l
      <3> QED BY <1>1, <2>1, <3>1, CountExchange DEF Count
    <2> QED BY <2>2, <2>3
  <1> QED BY <1>2, <1>3 DEF Count

LEMMA FreshCount ==
    ASSUME Shape, NEW l \in Links \ Made, link'[l].ref = 0, Holders(l)' = Holders(l)
    PROVE  CountOf(l)'
  <1>1. Holders(l)' = {}
    BY UnmadeIsFree
  <1>2. Cardinality(Holders(l)') = 0
    BY <1>1, FS_EmptySet
  <1> QED BY <1>1, <1>2 DEF CountOf

LEMMA FetchOwnHolders ==
    ASSUME Shape, NEW f \in Frames, FetchOwn(f)
    PROVE  \E l \in Links : Fresh(l) /\ \A k : Holders(k)' = Holders(k)
  <1> PICK l \in Links :
              /\ Fresh(l) /\ link'[l].below = None /\ ~link'[l].counts
              /\ ~call[f].counts /\ OthersSame(f) /\ ~call'[f].counts
    BY FetchOwnFacts
  <1>1. ~link[l].counts
    BY DEF Fresh, Shape, LinksOK, LinkOK, Unmade
  <1>2. \A k : Holders(k)' = Holders(k)
    BY <1>1, HoldersSame DEF OthersSame, Fresh, LinksBut
  <1> QED BY <1>2

LEMMA FetchOwnCount ==
    ASSUME Shape, Count, NEW f \in Frames, FetchOwn(f) PROVE Count'
  <1> PICK l \in Links : Fresh(l) /\ \A k : Holders(k)' = Holders(k)
    BY FetchOwnHolders
  <1>1. l \notin Made /\ Made' = Made \cup {l} /\ link'[l].ref = 0
    BY DEF Fresh
  <1>2. ASSUME NEW k \in Made' PROVE CountOf(k)'
    <2>1. CASE k = l
      BY <1>1, <2>1, FreshCount
    <2>2. CASE k # l
      <3>1. k \in Made /\ link'[k] = link[k]
        BY <1>1, <2>2 DEF Fresh, LinksBut, Made
      <3> QED BY <3>1, CountSame DEF Count
    <2> QED BY <2>1, <2>2
  <1> QED BY <1>2 DEF Count

LEMMA WrapHolders ==
    ASSUME Shape, NEW f \in Frames, Wrap(f)
    PROVE  LET h == Nested(f) IN
           \E l \in Links : Fresh(l) /\ \A k :
              IF k = call[h].link /\ call[h].counts
                THEN /\ h \in Holders(k) /\ Party(l) \notin Holders(k)
                     /\ Holders(k)' = (Holders(k) \ {h}) \cup {Party(l)}
                ELSE Holders(k)' = Holders(k)
  <1> DEFINE h == Nested(f)
             b == call[h].link
  <1>1. /\ h \in Frames /\ b \in Made
        /\ ~call[f].counts /\ ~call'[f].counts /\ ~call'[h].counts
        /\ \A g \in Frames \ {f, h} : call'[g] = call[g]
    BY WrapFacts
  <1> PICK l \in Links : /\ Fresh(l) /\ link'[l].below = b /\ link'[l].counts = call[h].counts
    BY WrapFacts
  <1>2. /\ ~link[l].counts
        /\ \A k \in Links \ {l} : link'[k] = link[k]
    BY DEF Fresh, LinksBut, Shape, LinksOK, LinkOK, Unmade
  <1>3. ASSUME NEW k, k # b \/ ~call[h].counts PROVE Holders(k)' = Holders(k)
    <2>1. \A g \in Frames : (call'[g].link = k /\ call'[g].counts) <=> (call[g].link = k /\ call[g].counts)
      BY <1>1, <1>3
    <2>2. \A j \in Links : (link'[j].below = k /\ link'[j].counts) <=> (link[j].below = k /\ link[j].counts)
      BY <1>2, <1>3
    <2> QED BY <2>1, <2>2, HoldersSame
  <1>4. ASSUME NEW k, k = b, call[h].counts
        PROVE  /\ h \in Holders(k) /\ Party(l) \notin Holders(k)
               /\ Holders(k)' = (Holders(k) \ {h}) \cup {Party(l)}
    <2>1. h \in Holders(k) /\ Party(l) \notin Holders(k)
      BY <1>1, <1>2, <1>4, HoldersAre
    <2> DEFINE H == (Holders(k) \ {h}) \cup {Party(l)}
    <2>2. H \in SUBSET Parties
      BY HoldersAre, PartyFacts
    <2>3. \A g \in Frames : g \in H <=> call'[g].link = k /\ call'[g].counts
      BY <1>1, HoldersAre, PartyFacts
    <2>4. \A j \in Links : Party(j) \in H <=> link'[j].below = k /\ link'[j].counts
      <3>1. \A j \in Links : Party(j) # h /\ (Party(j) = Party(l) <=> j = l)
        BY <1>1, PartyFacts
      <3>2. link'[l].below = k /\ link'[l].counts
        BY <1>4
      <3> HIDE DEF h, b
      <3> QED BY <1>2, <3>1, <3>2, HoldersAre
    <2>5. Holders(k)' = H
      <3> HIDE DEF H
      <3> QED BY <2>2, <2>3, <2>4, HoldersWillBe
    <2> QED BY <2>1, <2>5
  <1> QED BY <1>3, <1>4

\* The new link takes over the reference of the call for the file below.
LEMMA WrapCount ==
    ASSUME Shape, Count, NEW f \in Frames, Wrap(f) PROVE Count'
  <1> DEFINE h == Nested(f)
             b == call[h].link
  <1> PICK l \in Links : Fresh(l) /\ \A k :
              IF k = b /\ call[h].counts
                THEN /\ h \in Holders(k) /\ Party(l) \notin Holders(k)
                     /\ Holders(k)' = (Holders(k) \ {h}) \cup {Party(l)}
                ELSE Holders(k)' = Holders(k)
    BY WrapHolders
  <1>1. l \notin Made /\ Made' = Made \cup {l} /\ link'[l].ref = 0 /\ b \in Made
    BY WrapFacts DEF Fresh
  <1>2. ASSUME NEW k \in Made' PROVE CountOf(k)'
    <2>1. CASE k = l
      <3>1. Holders(k)' = Holders(k)
        BY <1>1, <2>1
      <3> QED BY <1>1, <2>1, <3>1, FreshCount
    <2>2. CASE k # l
      <3>1. k \in Made /\ k \in Links /\ link'[k] = link[k] /\ link[k].ref \in Int
        BY <1>1, <2>2 DEF Fresh, LinksBut, Made, Shape, LinksOK, LinkStates
      <3>2. CASE ~(k = b /\ call[h].counts)
        <4>1. Holders(k)' = Holders(k)
          BY <3>2
        <4> QED BY <3>1, <4>1, CountSame DEF Count
      <3>3. CASE k = b /\ call[h].counts
        <4>1. /\ h \in Holders(k) /\ Party(l) \notin Holders(k)
              /\ Holders(k)' = (Holders(k) \ {h}) \cup {Party(l)}
          BY <3>3
        <4> HIDE DEF h, b
        <4> QED BY <3>1, <4>1, CountExchange DEF Count
      <3> QED BY <3>2, <3>3
    <2> QED BY <2>1, <2>2
  <1> QED BY <1>2 DEF Count

LEMMA NextCount ==
    ASSUME Shape, Shape', Low, Refs, Count, [Next]_vars PROVE Count'
BY NextLow, Steps, CalmCount, JoinsCount, BorrowsCount, RestoreCount, GivesUpCount, DropsCount,
   RunClosersCount, FetchOwnCount, WrapCount

-----------------------------------------------------------------------------
(* Closers run once.                                                        *)

OnceOf(l) ==
    /\ link[l].done => link[l].ref < 0
    /\ link[l].ref < 0 /\ ~link[l].done => \E f \in Frames : Closing(f, l)
    /\ \A f \in Frames : Closing(f, l) => /\ link[l].ref < 0 /\ ~link[l].done
                                         /\ \A g \in Frames : Closing(g, l) => g = f

LEMMA OnceSame ==
    ASSUME NEW l, OnceOf(l), link'[l].done <=> link[l].done, link'[l].ref < 0 <=> link[l].ref < 0,
           \A g \in Frames : Closing(g, l)' <=> Closing(g, l)
    PROVE  OnceOf(l)'
BY DEF OnceOf

\* A step of one frame that makes no link and neither starts nor ends closing one.
LEMMA OnceBy ==
    ASSUME ClosedOnce, NEW f \in Frames, OthersSame(f),
           call[f].pc # "closers", call'[f].pc # "closers",
           \A k \in Links : /\ link'[k].file = link[k].file /\ link'[k].done = link[k].done
                            /\ k \in Made => (link'[k].ref < 0 <=> link[k].ref < 0)
    PROVE  ClosedOnce'
  <1>1. Made' = Made
    BY DEF Made
  <1>2. \A k \in Made, g \in Frames : Closing(g, k)' <=> Closing(g, k)
    BY DEF OthersSame, Closing
  <1>3. \A k \in Made : OnceOf(k)'
    BY <1>2, OnceSame DEF ClosedOnce, OnceOf, Made
  <1> QED BY <1>1, <1>3 DEF ClosedOnce, OnceOf

LEMMA CalmOnce == ASSUME ClosedOnce, Calm PROVE ClosedOnce'
  <1>1. \A k \in Links : SameLink(link[k], link'[k])
    BY DEF Calm
  <1>2. Made' = Made
    BY <1>1 DEF SameLink, Made
  <1>3. \A k \in Made, g \in Frames : Closing(g, k)' <=> Closing(g, k)
    BY DEF Calm, SameRole, Roles, Users, Closing
  <1>4. \A k \in Made : OnceOf(k)'
    BY <1>1, <1>3, OnceSame DEF ClosedOnce, OnceOf, Made, SameLink
  <1> QED BY <1>2, <1>4 DEF ClosedOnce, OnceOf

LEMMA JoinsOnce ==
    ASSUME Shape, StaysNegative, ClosedOnce, NEW f \in Frames, Joins(f) PROVE ClosedOnce'
  <1> DEFINE l == call[f].link
  <1>1. /\ OthersSame(f) /\ LinksBut(l) /\ SameButRef(link[l], link'[l])
        /\ link'[l].ref = link[l].ref + 1 /\ link[l].ref \in Int
        /\ call[f].pc # "closers" /\ call'[f].pc # "closers"
    BY JoinsFacts DEF Roles
  <1>2. ASSUME NEW k \in Links, k \in Made PROVE link'[k].ref < 0 <=> link[k].ref < 0
    <2>1. link[k].ref < 0 => link'[k].ref < 0
      BY <1>2 DEF StaysNegative
    <2>2. CASE k = l
      <3>1. link'[k].ref = link[k].ref + 1 /\ link[k].ref \in Int
        BY <1>1, <2>2
      <3> HIDE DEF l
      <3> QED BY <2>1, <3>1
    <2>3. CASE k # l
      BY <1>1, <2>3 DEF LinksBut
    <2> QED BY <2>2, <2>3
  <1>3. \A k \in Links : link'[k].file = link[k].file /\ link'[k].done = link[k].done
    BY <1>1 DEF LinksBut, SameButRef
  <1> QED BY <1>1, <1>2, <1>3, OnceBy

LEMMA RestoreOnce ==
    ASSUME Shape, Refs, ClosedOnce, NEW f \in Frames, Restore(f) PROVE ClosedOnce'
  <1> DEFINE l == call[f].link
  <1>1. /\ OthersSame(f) /\ LinksBut(l) /\ SameButRef(link[l], link'[l])
        /\ link[l].ref < 0 /\ link'[l].ref = Closed
        /\ call[f].pc # "closers" /\ call'[f].pc # "closers"
    BY RestoreFacts DEF Refs, FrameRefs
  <1>2. ASSUME NEW k \in Links PROVE link'[k].ref < 0 <=> link[k].ref < 0
    BY <1>1, FramesFinite DEF LinksBut
  <1>3. \A k \in Links : link'[k].file = link[k].file /\ link'[k].done = link[k].done
    BY <1>1 DEF LinksBut, SameButRef
  <1> QED BY <1>1, <1>2, <1>3, OnceBy

LEMMA DropsOnce ==
    ASSUME Shape, ClosedOnce, NEW f \in Frames, Drops(f) PROVE ClosedOnce'
  <1> DEFINE l == call[f].link
  <1>1. /\ OthersSame(f) /\ LinksBut(l) /\ SameButRef(link[l], link'[l])
        /\ link[l].ref \in Nat /\ l \in Made /\ call[f].pc # "closers"
        /\ \/ link[l].ref > 1 /\ link'[l].ref = link[l].ref - 1 /\ call'[f].pc # "closers"
           \/ link'[l].ref = Closed /\ call'[f].pc = "closers" /\ call'[f].link = l
    BY DropsFacts DEF Roles
  <1>2. \A k \in Links : link'[k].file = link[k].file /\ link'[k].done = link[k].done
    BY <1>1 DEF LinksBut, SameButRef
  <1>3. CASE link[l].ref > 1 /\ link'[l].ref = link[l].ref - 1 /\ call'[f].pc # "closers"
    <2>1. ~(link[l].ref < 0) /\ ~(link'[l].ref < 0)
      <3> HIDE DEF l
      <3> QED BY <1>1, <1>3
    <2>2. ASSUME NEW k \in Links PROVE link'[k].ref < 0 <=> link[k].ref < 0
      BY <1>1, <2>1 DEF LinksBut
    <2> QED BY <1>1, <1>2, <1>3, <2>2, OnceBy
  <1>4. CASE link'[l].ref = Closed /\ call'[f].pc = "closers" /\ call'[f].link = l
    <2>1. ~(link[l].ref < 0) /\ link'[l].ref < 0
      <3> HIDE DEF l
      <3> QED BY <1>1, <1>4, FramesFinite
    <2>2. ASSUME NEW k \in Made PROVE OnceOf(k)'
      <3>1. CASE k = l
        <4>1. ~link[k].done /\ \A g \in Frames : ~Closing(g, k)
          BY <2>1, <3>1 DEF ClosedOnce
        <4>2. Closing(f, k)' /\ \A g \in Frames : Closing(g, k)' => g = f
          BY <1>1, <1>4, <3>1, <4>1 DEF Closing, OthersSame
        <4>3. ~link'[k].done /\ link'[k].ref < 0
          BY <1>2, <2>1, <3>1, <4>1 DEF Made
        <4> QED BY <4>2, <4>3 DEF OnceOf
      <3>2. CASE k # l
        <4>1. link'[k] = link[k]
          BY <1>1, <3>2 DEF LinksBut, Made
        <4>2. \A g \in Frames : Closing(g, k)' <=> Closing(g, k)
          BY <1>1, <1>4, <3>2 DEF OthersSame, Closing
        <4> QED BY <4>1, <4>2, OnceSame DEF ClosedOnce, OnceOf
      <3> QED BY <3>1, <3>2
    <2>3. Made' = Made
      BY <1>2 DEF Made
    <2> QED BY <2>2, <2>3 DEF ClosedOnce, OnceOf
  <1> QED BY <1>1, <1>3, <1>4

LEMMA RunClosersOnce ==
    ASSUME Shape, ClosedOnce, NEW f \in Frames, RunClosers(f) PROVE ClosedOnce'
  <1> DEFINE l == call[f].link
  <1>1. /\ OthersSame(f) /\ LinksBut(l) /\ link'[l].file = link[l].file
        /\ link'[l].ref = link[l].ref /\ link'[l].done
        /\ l \in Made /\ l \in Links /\ call[f].pc = "closers" /\ call'[f].pc # "closers"
    BY RunClosersFacts DEF Roles
  <1>2. Made' = Made
    BY <1>1 DEF LinksBut, Made
  <1>3. ASSUME NEW k \in Made PROVE OnceOf(k)'
    <2>1. CASE k = l
      <3>1. Closing(f, k)
        BY <1>1, <2>1 DEF Closing
      <3>2. link[k].ref < 0 /\ \A g \in Frames : Closing(g, k) => g = f
        BY <3>1 DEF ClosedOnce
      <3>3. \A g \in Frames : ~Closing(g, k)'
        BY <1>1, <3>2 DEF Closing, OthersSame
      <3> QED BY <1>1, <2>1, <3>2, <3>3 DEF OnceOf
    <2>2. CASE k # l
      <3>1. link'[k] = link[k]
        BY <1>1, <2>2 DEF LinksBut, Made
      <3>2. \A g \in Frames : Closing(g, k)' <=> Closing(g, k)
        BY <1>1, <2>2 DEF OthersSame, Closing
      <3> QED BY <3>1, <3>2, OnceSame DEF ClosedOnce, OnceOf
    <2> QED BY <2>1, <2>2
  <1> QED BY <1>2, <1>3 DEF ClosedOnce, OnceOf

LEMMA FreshOnce ==
    ASSUME Shape, ClosedOnce, NEW l \in Links, Fresh(l),
           \A g \in Frames : \/ call'[g] = call[g]
                             \/ call[g].pc # "closers" /\ call'[g].pc # "closers"
    PROVE  ClosedOnce'
  <1>1. \A k, g : g \in Frames => (Closing(g, k)' <=> Closing(g, k))
    BY DEF Closing
  <1>2. ASSUME NEW k \in Made' PROVE OnceOf(k)'
    <2>1. CASE k = l
      <3>1. \A g \in Frames : ~Closing(g, l)
        BY FrameFacts DEF Closing, Fresh, Linked
      <3>2. link'[l].ref = 0 /\ ~link'[l].done
        BY DEF Fresh
      <3> QED BY <1>1, <2>1, <3>1, <3>2 DEF OnceOf
    <2>2. CASE k # l
      <3>1. k \in Made /\ link'[k] = link[k]
        BY <2>2 DEF Fresh, LinksBut, Made
      <3> QED BY <1>1, <3>1, OnceSame DEF ClosedOnce, OnceOf
    <2> QED BY <2>1, <2>2
  <1> QED BY <1>2 DEF ClosedOnce, OnceOf

LEMMA NextOnce ==
    ASSUME Shape, Low, Refs, ClosedOnce, [Next]_vars PROVE ClosedOnce'
  <1>1. ASSUME NEW f \in Frames, Borrows(f) \/ GivesUp(f) PROVE ClosedOnce'
    <2>1. /\ OthersSame(f) /\ link' = link /\ call[f].pc # "closers" /\ call'[f].pc # "closers"
      BY <1>1, BorrowsFacts, GivesUpFacts DEF Roles
    <2> QED BY <2>1, OnceBy
  <1>2. ASSUME NEW f \in Frames, FetchOwn(f) PROVE ClosedOnce'
    BY <1>2, FetchOwnFacts, FreshOnce DEF OthersSame, Roles
  <1>3. ASSUME NEW f \in Frames, Wrap(f) PROVE ClosedOnce'
    <2>1. PICK l \in Links : Fresh(l)
      BY <1>3, WrapFacts
    <2>2. \A g \in Frames : \/ call'[g] = call[g]
                            \/ call[g].pc # "closers" /\ call'[g].pc # "closers"
      BY <1>3, WrapFacts DEF Roles
    <2> QED BY <2>1, <2>2, FreshOnce
  <1> QED BY <1>1, <1>2, <1>3, NextLow, Steps, CalmOnce, JoinsOnce, RestoreOnce, DropsOnce, RunClosersOnce

-----------------------------------------------------------------------------
(* No link is left open: one that was joined has a holder, of any kind it   *)
(* may be, and one that was not is still in the hands of who asked for it.  *)

BoundOf(l) == link[l].ref >= 0 => link[l].ref <= Cardinality(Holders(l))
Bounded == \A l \in Made : BoundOf(l)

LEMMA BoundSame ==
    ASSUME NEW l, BoundOf(l), link'[l].ref = link[l].ref,
           Cardinality(Holders(l)') = Cardinality(Holders(l))
    PROVE  BoundOf(l)'
BY DEF BoundOf

LEMMA JoinsBound ==
    ASSUME Shape, Bounded, StaysNegative, NEW f \in Frames, Joins(f) PROVE Bounded'
  <1> DEFINE l == call[f].link
  <1>1. LinksBut(l) /\ \A k \in Links : link'[k].file = link[k].file
    BY JoinsFacts DEF LinksBut, SameButRef
  <1>2. Made' = Made
    BY <1>1 DEF Made
  <1>3. ASSUME NEW k \in Made PROVE BoundOf(k)'
    <2>1. CASE k # l
      BY <1>1, <2>1, JoinsHolders, BoundSame DEF LinksBut, Bounded, Made
    <2>2. CASE k = l
      <3>1. /\ link[k].ref \in Int /\ link'[k].ref = link[k].ref + 1
            /\ \/ call'[f].counts /\ link'[k].ref > 0
               \/ ~call'[f].counts /\ link'[k].ref <= 0
        BY <2>2, JoinsFacts
      <3>2. link[k].ref < 0 => link'[k].ref < 0
        BY DEF StaysNegative
      <3>3. CASE call'[f].counts /\ link'[k].ref > 0
        <4>1. Cardinality(Holders(k)') = Cardinality(Holders(k)) + 1
          BY <2>2, <3>3, JoinsHolders, HoldersFinite, FS_AddElement
        <4>2. link[k].ref >= 0
          BY <3>1, <3>2, <3>3
        <4>3. link[k].ref <= Cardinality(Holders(k)) /\ Cardinality(Holders(k)) \in Nat
          BY <4>2, HoldersFinite DEF BoundOf, Bounded
        <4> QED BY <3>1, <4>1, <4>3 DEF BoundOf
      <3>4. CASE ~call'[f].counts /\ link'[k].ref <= 0
        BY <3>1, <3>2, <3>4 DEF BoundOf
      <3> QED BY <3>1, <3>3, <3>4
    <2> QED BY <2>1, <2>2
  <1> QED BY <1>2, <1>3 DEF Bounded

LEMMA RestoreBound ==
    ASSUME Shape, Bounded, NEW f \in Frames, Restore(f) PROVE Bounded'
  <1> DEFINE l == call[f].link
  <1>1. /\ \A k \in Links : /\ link'[k].below = link[k].below /\ link'[k].counts = link[k].counts
                            /\ link'[k].file = link[k].file
        /\ OthersSame(f) /\ ~call[f].counts /\ ~call'[f].counts
        /\ LinksBut(l) /\ link'[l].ref = Closed
    BY RestoreFacts DEF LinksBut, SameButRef
  <1>2. Made' = Made
    BY <1>1 DEF Made
  <1>3. ASSUME NEW k \in Made PROVE BoundOf(k)'
    <2>1. Holders(k)' = Holders(k)
      BY <1>1, HoldersSame DEF OthersSame
    <2>2. CASE k # l
      BY <1>1, <2>1, <2>2, BoundSame DEF LinksBut, Bounded, Made
    <2>3. CASE k = l
      <3>1. ~(link'[k].ref >= 0)
        BY <1>1, <2>3, FramesFinite
      <3> QED BY <3>1 DEF BoundOf
    <2> QED BY <2>2, <2>3
  <1> QED BY <1>2, <1>3 DEF Bounded

\* A frame that borrowed the link, or gives a closed one up, moves no open counter.
LEMMA UsesBound ==
    ASSUME Shape, Bounded, NEW f \in Frames, Borrows(f) \/ GivesUp(f) PROVE Bounded'
  <1> DEFINE l == call[f].link
  <1>1. /\ OthersSame(f) /\ ~call'[f].counts /\ link' = link /\ l \in Made
        /\ ~call[f].counts \/ link[l].ref < 0
    BY BorrowsFacts, GivesUpFacts
  <1>2. ASSUME NEW k \in Made PROVE BoundOf(k)'
    <2>1. CASE k # l \/ ~call[f].counts
      <3>1. Holders(k)' = Holders(k)
        BY <1>1, <2>1, HoldersSame DEF OthersSame
      <3> QED BY <1>1, <3>1, BoundSame DEF Bounded
    <2>2. CASE k = l /\ link[l].ref < 0
      <3>1. link[k].ref \in Int
        BY DEF Shape, LinksOK, LinkStates, Made
      <3> QED BY <1>1, <2>2, <3>1 DEF BoundOf
    <2> QED BY <1>1, <2>1, <2>2
  <1> QED BY <1>1, <1>2, MadeSame DEF Bounded

LEMMA DropsBound ==
    ASSUME Shape, Bounded, NEW f \in Frames, Drops(f) PROVE Bounded'
  <1> DEFINE l == call[f].link
  <1>1. LinksBut(l) /\ \A k \in Links : link'[k].file = link[k].file
    BY DropsFacts DEF LinksBut, SameButRef
  <1>2. Made' = Made
    BY <1>1 DEF Made
  <1>3. ASSUME NEW k \in Made PROVE BoundOf(k)'
    <2>1. CASE k # l
      BY <1>1, <2>1, DropsHolders, BoundSame DEF LinksBut, Bounded, Made
    <2>2. CASE k = l
      <3>1. /\ link[k].ref \in Nat
            /\ \/ link'[k].ref = link[k].ref - 1
               \/ link'[k].ref = Closed
        BY <2>2, DropsFacts
      <3>2. /\ Cardinality(Holders(k)) \in Nat
            /\ \/ Cardinality(Holders(k)') = Cardinality(Holders(k))
               \/ Cardinality(Holders(k)') = Cardinality(Holders(k)) - 1
        BY <2>2, DropsHolders, HoldersFinite, FS_RemoveElement
      <3>3. link[k].ref <= Cardinality(Holders(k))
        BY <3>1 DEF Bounded, BoundOf
      <3> QED BY <3>1, <3>2, <3>3, FramesFinite DEF BoundOf
    <2> QED BY <2>1, <2>2
  <1> QED BY <1>2, <1>3 DEF Bounded

LEMMA RunClosersBound ==
    ASSUME Shape, Bounded, NEW f \in Frames, RunClosers(f) PROVE Bounded'
  <1> DEFINE l == call[f].link
             b == link[l].below
  <1>1. \A k \in Links : link'[k].file = link[k].file /\ link'[k].ref = link[k].ref
    BY RunClosersFacts DEF LinksBut
  <1>2. Made' = Made
    BY <1>1 DEF Made
  <1>3. ASSUME NEW k \in Made PROVE BoundOf(k)'
    <2>1. \/ Holders(k)' = Holders(k)
          \/ /\ Party(l) \in Holders(k) /\ f \notin Holders(k)
             /\ Holders(k)' = (Holders(k) \ {Party(l)}) \cup {f}
      BY RunClosersHolders
    <2> HIDE DEF l
    <2>2. Cardinality(Holders(k)') = Cardinality(Holders(k))
      BY <2>1, HoldersFinite, Exchange
    <2> QED BY <1>1, <2>2, BoundSame DEF Bounded, Made
  <1> QED BY <1>2, <1>3 DEF Bounded

\* A new link has no reference; those of the others change hands.
LEMMA FreshBound ==
    ASSUME Shape, Bounded, NEW l \in Links, Fresh(l),
           \A k \in Made : Cardinality(Holders(k)') = Cardinality(Holders(k))
    PROVE  Bounded'
  <1>1. Made' = Made \cup {l} /\ link'[l].ref = 0 /\ l \notin Made
    BY DEF Fresh
  <1>2. Cardinality(Holders(l)') \in Nat
    <2>1. Holders(l)' \subseteq Parties
      BY DEF Holders, Parties
    <2> QED BY <2>1, PartiesFinite, FS_Subset, FS_CardinalityType
  <1>3. ASSUME NEW k \in Made PROVE BoundOf(k)'
    <2>1. link'[k] = link[k]
      BY <1>1 DEF Fresh, LinksBut, Made
    <2> QED BY <2>1, BoundSame DEF Bounded
  <1>4. BoundOf(l)'
    BY <1>1, <1>2 DEF BoundOf
  <1> QED BY <1>1, <1>3, <1>4 DEF Bounded

LEMMA NextBound ==
    ASSUME Shape, Low, Bounded, [Next]_vars PROVE Bounded'
  <1>1. CASE Calm
    <2>1. \A k \in Links : SameLink(link[k], link'[k])
      BY <1>1 DEF Calm
    <2>2. Made' = Made
      BY <2>1 DEF SameLink, Made
    <2>3. \A k \in Made : Holders(k)' = Holders(k)
      BY <1>1, <2>1, CalmHolds, HoldersSame DEF SameLink
    <2> QED BY <2>1, <2>2, <2>3, BoundSame DEF SameLink, Bounded, Made
  <1>2. ASSUME NEW f \in Frames, FetchOwn(f) PROVE Bounded'
    <2> PICK l \in Links : Fresh(l) /\ \A k : Holders(k)' = Holders(k)
      BY <1>2, FetchOwnHolders
    <2> QED BY FreshBound
  <1>3. ASSUME NEW f \in Frames, Wrap(f) PROVE Bounded'
    <2> DEFINE h == Nested(f)
    <2> PICK l \in Links : Fresh(l) /\ \A k :
                IF k = call[h].link /\ call[h].counts
                  THEN /\ h \in Holders(k) /\ Party(l) \notin Holders(k)
                       /\ Holders(k)' = (Holders(k) \ {h}) \cup {Party(l)}
                  ELSE Holders(k)' = Holders(k)
      BY <1>3, WrapHolders
    <2>1. ASSUME NEW k \in Made PROVE Cardinality(Holders(k)') = Cardinality(Holders(k))
      <3>1. \/ Holders(k)' = Holders(k)
            \/ /\ h \in Holders(k) /\ Party(l) \notin Holders(k)
               /\ Holders(k)' = (Holders(k) \ {h}) \cup {Party(l)}
        OBVIOUS
      <3> HIDE DEF h
      <3> QED BY <3>1, HoldersFinite, Exchange
    <2> QED BY <2>1, FreshBound
  <1> QED BY <1>1, <1>2, <1>3, NextLow, Steps, JoinsBound, UsesBound, RestoreBound, DropsBound,
             RunClosersBound

\* Frames that have to do with a link that they fetched, and have not joined yet.
Fetched == {"store", "finish", "join"}
Awaited == \A l \in Made : link[l].ref = 0 =>
               \E f \in Frames : call[f].pc \in Fetched /\ call[f].link = l

LEMMA FetchedStays ==
    ASSUME Shape, [Next]_vars, NEW g \in Frames, call[g].pc \in Fetched, ~Join(g)
    PROVE  call'[g].pc \in Fetched /\ call'[g].link = call[g].link
  <1> DEFINE Stays == call'[g].pc \in Fetched /\ call'[g].link = call[g].link
  <1>1. call \in [Frames -> Calls]
    BY DEF Shape, CallsOK
  <1>2. ASSUME call'[g] = call[g] PROVE Stays
    BY <1>2
  <1>3. ASSUME NEW f \in Frames, Proceeds(f) PROVE Stays
    <2>1. CASE Store(f)
      <3>1. call' = To(f, "finish", call[f].link, call[f].counts)
        BY <2>1 DEF Store, At
      <3> QED BY <1>2, <3>1, ToFacts DEF Fetched, OthersSame
    <2>2. CASE Finish(f)
      <3>1. call'[g] = IF g = f \/ Awaits(g, f) THEN In("join", call[f].link, FALSE) ELSE call[g]
        BY <2>2 DEF Finish
      <3>2. ~Awaits(g, f)
        BY DEF Awaits, Fetched
      <3>3. CASE g = f
        <4> DEFINE a == In("join", call[f].link, FALSE)
        <4>1. a.pc = "join" /\ a.link = call[f].link
          BY InLink
        <4>2. call'[g] = a
          BY <3>1, <3>3
        <4> HIDE DEF a
        <4> QED BY <3>3, <4>1, <4>2 DEF Fetched
      <3>4. CASE g # f
        BY <1>2, <3>1, <3>2, <3>4
      <3> QED BY <3>3, <3>4
    <2>3. CASE Join(f)
      BY <1>1, <1>2, <2>3 DEF Join, AddReference, To
    <2>4. CASE FetchFails(f)
      <3>1. f # g /\ ~Awaits(g, f) /\ ~(call[f].pc = "nested" /\ g = Nested(f))
        BY <2>4 DEF FetchFails, Awaits, Fetched
      <3> QED BY <1>2, <2>4, <3>1 DEF FetchFails
    <2>5. CASE Wrap(f)
      <3>1. g # f /\ g # Nested(f)
        BY <2>5 DEF Wrap, Fetched
      <3> QED BY <1>2, <2>5, <3>1, WrapFacts
    <2>6. CASE Unwrap(f)
      <3>1. g # Nested(f) /\ Nested(f) \in Frames
        BY <2>6, NestedFacts DEF Unwrap, Fetched
      <3> QED BY <1>1, <1>2, <2>6, <3>1 DEF Unwrap, At, To
    <2>7. CASE Lookup(f)
      <3>1. g # f
        BY <2>7, Starts DEF Lookup, Fetched
      <3> QED BY <1>1, <1>2, <2>7, <3>1 DEF Lookup, Again, To
    <2>8. CASE Evict(f) \/ Hit(f) \/ Do(f) \/ FetchOwn(f) \/ FetchBelow(f) \/ Restore(f)
      <3>1. g # f
        BY <2>8 DEF Evict, Hit, Do, FetchOwn, FetchBelow, Restore, Fetched
      <3> QED BY <1>1, <1>2, <2>8, <3>1
           DEF Evict, Hit, Do, FetchOwn, FetchBelow, Restore, RestoreClosed, AddReference, Again, At, To
    <2>9. CASE CloseLoad(f) \/ CloseSwap(f) \/ RunClosers(f)
      <3>1. g # f
        BY <2>9 DEF CloseLoad, CloseSwap, RunClosers, Fetched
      <3> QED BY <1>1, <1>2, <2>9, <3>1
           DEF CloseLoad, CloseSwap, RunClosers, Loaded, Ends, At, To
    <2> QED BY <1>3, <2>1, <2>2, <2>3, <2>4, <2>5, <2>6, <2>7, <2>8, <2>9 DEF Proceeds
  <1>4. ASSUME NEW f \in Frames, Close(f) PROVE Stays
    BY <1>1, <1>2, <1>4 DEF Close, At, To, Fetched
  <1>5. ASSUME NEW k \in Files, DeleteKey(k) PROVE Stays
    BY <1>2, <1>5 DEF DeleteKey, Drop
  <1>6. ASSUME Clear \/ GC PROVE Stays
    BY <1>2, <1>6 DEF Clear, Drop, GC
  <1>7. ASSUME NEW l \in Links, Expire(l) PROVE Stays
    BY <1>2, <1>7 DEF Expire
  <1>8. ASSUME UNCHANGED vars PROVE Stays
    BY <1>2, <1>8 DEF vars
  <1> HIDE DEF Stays
  <1>9. Stays
    BY <1>3, <1>4, <1>5, <1>6, <1>7, <1>8 DEF Next
  <1> QED BY <1>9 DEF Stays

\* A counter that is zero is that of a new link, or was zero.
LEMMA ZeroWas ==
    ASSUME Shape, Low, [Next]_vars, NEW l \in Made', link'[l].ref = 0
    PROVE  \/ l \in Made /\ link[l].ref = 0
           \/ \E f \in Frames : call'[f].pc = "store" /\ call'[f].link = l
  <1>1. l \in Links
    BY DEF Made
  <1>2. CASE Calm
    BY <1>1, <1>2 DEF Calm, SameLink, Made
  <1>3. ASSUME NEW f \in Frames, Joins(f) \/ Restore(f) \/ Drops(f) PROVE l \in Made /\ link[l].ref = 0
    <2> DEFINE k == call[f].link
    <2>1. \A j \in Links : link'[j].file = link[j].file
      BY <1>3, JoinsFacts, RestoreFacts, DropsFacts DEF LinksBut, SameButRef
    <2>2. l \in Made
      BY <2>1 DEF Made
    <2>3. CASE l # k
      BY <1>1, <1>3, <2>2, <2>3, JoinsFacts, RestoreFacts, DropsFacts DEF LinksBut
    <2>4. CASE l = k
      <3>1. link[l].ref \in Int /\ Closed # 0 /\ (link[l].ref < 0 => link'[l].ref < 0)
        BY <2>2, FramesFinite, NextLow DEF Shape, LinksOK, LinkStates, Made, StaysNegative
      <3>2. CASE Joins(f)
        BY <2>4, <3>1, <3>2, JoinsFacts
      <3>3. CASE Restore(f)
        BY <2>4, <3>1, <3>3, RestoreFacts
      <3>4. CASE Drops(f)
        BY <2>4, <3>1, <3>4, DropsFacts
      <3> QED BY <1>3, <3>1, <3>2, <3>3, <3>4
    <2> QED BY <2>3, <2>4
  <1>4. ASSUME NEW f \in Frames, Borrows(f) \/ GivesUp(f) PROVE l \in Made /\ link[l].ref = 0
    BY <1>4, BorrowsFacts, GivesUpFacts, MadeSame
  <1>5. ASSUME NEW f \in Frames, RunClosers(f) PROVE l \in Made /\ link[l].ref = 0
    <2>1. \A j \in Links : link'[j].file = link[j].file /\ link'[j].ref = link[j].ref
      BY <1>5, RunClosersFacts DEF LinksBut
    <2> QED BY <1>1, <2>1 DEF Made
  <1>6. ASSUME NEW f \in Frames, FetchOwn(f) \/ Wrap(f)
        PROVE  \/ l \in Made /\ link[l].ref = 0
               \/ \E g \in Frames : call'[g].pc = "store" /\ call'[g].link = l
    <2> PICK k \in Links : Fresh(k) /\ call'[f].pc = "store" /\ call'[f].link = k
      BY <1>6, FetchOwnFacts, WrapFacts
    <2>1. CASE l = k
      BY <2>1
    <2>2. CASE l # k
      BY <1>1, <2>2 DEF Fresh, LinksBut
    <2> QED BY <2>1, <2>2
  <1> QED BY <1>2, <1>3, <1>4, <1>5, <1>6, Steps

LEMMA NextAwaited ==
    ASSUME Shape, Low, Awaited, [Next]_vars PROVE Awaited'
  <1> SUFFICES ASSUME NEW l \in Made', link'[l].ref = 0
               PROVE  \E f \in Frames : call'[f].pc \in Fetched /\ call'[f].link = l
    BY DEF Awaited
  <1>1. CASE l \in Made /\ link[l].ref = 0
    <2> PICK f \in Frames : call[f].pc \in Fetched /\ call[f].link = l
      BY <1>1 DEF Awaited
    <2>1. CASE Join(f)
      <3>1. link'[l].ref = link[l].ref + 1
        BY <2>1, JoinsFacts DEF Join, Joins
      <3> QED BY <1>1, <3>1
    <2> QED BY <2>1, FetchedStays
  <1> QED BY <1>1, ZeroWas DEF Fetched

-----------------------------------------------------------------------------
(* What holds of every state.                                               *)

IInv == Shape /\ Low /\ Refs /\ Count /\ ClosedOnce /\ Bounded /\ Awaited

LEMMA InitInvariant == Init => IInv
  <1> SUFFICES ASSUME Init PROVE IInv
    OBVIOUS
  <1>1. Made = {}
    BY DEF Init, Made, Unmade
  <1>2. \A g \in Frames : call[g].pc = "idle"
    BY DEF Init, Idle, In
  <1>3. \A l \in Links : link[l].below = None
    BY DEF Init, Unmade
  <1>4. Refs
    BY <1>2, <1>3 DEF Refs, FrameRefs, LinkRefs, Users
  <1> QED BY <1>1, <1>4, InitShape DEF IInv, Low, Count, ClosedOnce, Bounded, Awaited

LEMMA NextInvariant == IInv /\ [Next]_vars => IInv'
BY NextShape, NextLow, NextRefs, NextCount, NextOnce, NextBound, NextAwaited DEF IInv

LEMMA Invariance == Spec => []IInv
BY InitInvariant, NextInvariant, PTL DEF Spec

\* A holder of a link whose reference counts keeps it open.
LEMMA HolderKeepsOpen ==
    ASSUME IInv, NEW l \in Made, link[l].kind # "expiring", Holders(l) # {}
    PROVE  link[l].ref > 0
  <1>1. link[l].ref \in Int
    BY DEF IInv, Shape, LinksOK, LinkStates, Made
  <1>2. Cardinality(Holders(l)) \in Nat /\ Cardinality(Holders(l)) # 0
    BY HoldersFinite, FS_EmptySet
  <1> QED BY <1>1, <1>2 DEF IInv, Count, CountOf

LEMMA InvHeldIsOpen == IInv => HeldIsOpen
  <1> SUFFICES ASSUME IInv, NEW f \in Frames, call[f].pc = "held",
                      link[call[f].link].kind = "required"
               PROVE  Usable(call[f].link)
    BY DEF HeldIsOpen
  <1> DEFINE l == call[f].link
             b == link[l].below
  <1>1. l \in Made /\ l \in Links
    BY FrameFacts DEF IInv, Linked
  <1>2. link[l].ref > 0
    <2>1. call[f].counts
      BY DEF IInv, Refs, FrameRefs, Users, Loose
    <2>2. f \in Holders(l)
      BY <2>1, HoldersAre
    <2> QED BY <1>1, <2>2, HolderKeepsOpen
  <1>3. ASSUME b # None PROVE link[b].ref > 0
    <2>1. b \in Made
      BY <1>1, <1>3 DEF IInv, Shape, LinksOK, LinkOK
    <2>2. link[b].kind = "required" /\ link[l].counts
      BY <1>1, <1>3 DEF IInv, Refs, LinkRefs, Loose
    <2>3. Party(l) \in Holders(b)
      BY <1>1, <2>2, HoldersAre
    <2> HIDE DEF b, l
    <2> QED BY <2>1, <2>2, <2>3, HolderKeepsOpen
  <1> QED BY <1>2, <1>3 DEF Usable

\* Whoever uses a link that must be open has it open, down to the link it was built on.
THEOREM HeldStaysOpen == Spec => []HeldIsOpen
BY Invariance, InvHeldIsOpen, PTL

\* The counter of an open link is the number of those who hold it.
THEOREM CounterCountsHolders == Spec => []CounterIsHolders
  <1>1. IInv => CounterIsHolders
    BY DEF IInv, Count, CountOf, CounterIsHolders
  <1> QED BY <1>1, Invariance, PTL

\* The closers of a link run once, by the frame that brought the counter down.
THEOREM ClosersRunOnce == Spec => []ClosedOnce
  <1>1. IInv => ClosedOnce
    BY DEF IInv
  <1> QED BY <1>1, Invariance, PTL

\* A link that was made and is not closed has someone who will join or close it, or is
\* among the closers of another one.
THEOREM NothingLeaks == Spec => []NoLeak
  <1>1. ASSUME IInv, NEW l \in Made, link[l].ref >= 0
        PROVE  \/ \E f \in Frames : call[f].link = l /\ call[f].pc \in Fetched \cup Users
               \/ \E o \in Links : link[o].below = l
    <2>1. link[l].ref \in Int
      BY <1>1 DEF IInv, Shape, LinksOK, LinkStates, Made
    <2>2. CASE link[l].ref = 0
      BY <1>1, <2>2 DEF IInv, Awaited
    <2>3. CASE link[l].ref > 0
      <3>1. Holders(l) # {}
        <4>1. link[l].ref <= Cardinality(Holders(l))
          BY <1>1 DEF IInv, Bounded, BoundOf
        <4>2. Cardinality(Holders(l)) \in Nat
          BY HoldersFinite
        <4>3. Cardinality(Holders(l)) # 0
          BY <2>1, <2>3, <4>1, <4>2
        <4> QED BY <4>3, FS_EmptySet
      <3> PICK p \in Holders(l) : TRUE
        BY <3>1
      <3>2. ASSUME p \in Frames
            PROVE  \E f \in Frames : call[f].link = l /\ call[f].pc \in Fetched \cup Users
        BY <1>1, <3>2, HoldersAre, FrameFacts DEF IInv, FrameOK
      <3>3. ASSUME NEW o \in Links, p = Party(o) PROVE link[o].below = l
        BY <3>3, HoldersAre
      <3> QED BY <3>2, <3>3, HoldersAre, PartyFacts
    <2> QED BY <1>1, <2>1, <2>2, <2>3
  <1>2. IInv => NoLeak
    BY <1>1 DEF NoLeak, Fetched, Users
  <1> QED BY <1>2, Invariance, PTL

-----------------------------------------------------------------------------
(* The link cache implements LinkLease.                                     *)

Leased(l) == l \in Made /\ link[l].kind # "expiring"
\* What a step may do with the holders and the counter of a leased link.
Moves(l) ==
    \/ Holders(l)' = Holders(l) /\ (link'[l].ref < 0 <=> link[l].ref < 0)
    \/ /\ ~(link[l].ref < 0) /\ ~(link'[l].ref < 0)
       /\ \/ \E p \in Parties : Holders(l)' = Holders(l) \cup {p}
          \/ \E p \in Holders(l) : Holders(l)' = Holders(l) \ {p}
          \/ \E p \in Holders(l), q \in Parties : Holders(l)' = (Holders(l) \ {p}) \cup {q}
    \/ /\ ~(link[l].ref < 0) /\ link'[l].ref < 0 /\ Holders(l)' = {}
       /\ \E p \in Parties : Holders(l) = {p}

\* A link with holders is open.
LEMMA HeldIsNotClosed ==
    ASSUME IInv, NEW l, Leased(l), Holders(l) # {} PROVE ~(link[l].ref < 0)
BY DEF IInv, Count, CountOf, Leased

LEMMA JoinsMoves ==
    ASSUME IInv, IInv', StaysNegative, NEW f \in Frames, Joins(f), NEW k, Leased(k), Leased(k)' PROVE Moves(k)
  <1>1. Shape /\ k \in Made /\ k \in Links
    BY DEF IInv, Leased, Made
  <1>2. CASE k = call[f].link /\ call'[f].counts
    <2>1. f \notin Holders(k) /\ Holders(k)' = Holders(k) \cup {f}
      BY <1>1, <1>2, JoinsHolders
    <2>2. ~(link'[k].ref < 0)
      BY <1>1, <1>2, JoinsFacts
    <2>3. ~(link[k].ref < 0)
      BY <1>1, <2>2 DEF StaysNegative
    <2> QED BY <2>1, <2>2, <2>3, PartyFacts DEF Moves
  <1>3. CASE ~(k = call[f].link /\ call'[f].counts)
    <2>1. Holders(k)' = Holders(k)
      BY <1>1, <1>3, JoinsHolders
    <2>2. CASE k # call[f].link
      <3>1. link'[k] = link[k]
        BY <1>1, <2>2, JoinsFacts DEF LinksBut
      <3> QED BY <2>1, <3>1 DEF Moves
    <2>3. CASE k = call[f].link
      <3>1. link[k].ref \in Int /\ link'[k].ref = link[k].ref + 1 /\ link'[k].ref <= 0
        BY <1>1, <1>3, <2>3, JoinsFacts
      <3>2. link[k].ref < 0
        BY <3>1
      <3>3. link'[k].ref < 0
        BY <1>1, <3>2 DEF StaysNegative
      <3> QED BY <2>1, <3>2, <3>3 DEF Moves
    <2> QED BY <2>2, <2>3
  <1> QED BY <1>2, <1>3

LEMMA DropsMoves ==
    ASSUME IInv, NEW f \in Frames, Drops(f), NEW k, Leased(k) PROVE Moves(k)
  <1>1. Shape /\ Count /\ Refs /\ k \in Links /\ link[k].kind # "expiring"
    BY DEF IInv, Leased, Made
  <1>2. CASE k = call[f].link
    <2>1. /\ call[f].counts /\ f \in Holders(k) /\ Holders(k)' = Holders(k) \ {f}
          /\ link[k].ref \in Nat /\ link[k].ref = Cardinality(Holders(k))
          /\ \/ link[k].ref > 1 /\ link'[k].ref = link[k].ref - 1
             \/ link'[k].ref = Closed /\ Holders(k)' = {}
      BY <1>1, <1>2, DropsLast
    <2>2. CASE link[k].ref > 1 /\ link'[k].ref = link[k].ref - 1
      <3>1. ~(link[k].ref < 0) /\ ~(link'[k].ref < 0)
        BY <2>1, <2>2
      <3> QED BY <2>1, <3>1 DEF Moves
    <2>3. CASE link'[k].ref = Closed /\ Holders(k)' = {}
      <3>1. ~(link[k].ref < 0) /\ link'[k].ref < 0
        BY <2>1, <2>3, FramesFinite
      <3>2. Holders(k) = {f} /\ f \in Parties
        BY <2>1, <2>3, PartyFacts
      <3> QED BY <2>3, <3>1, <3>2 DEF Moves
    <2> QED BY <2>1, <2>2, <2>3
  <1>3. CASE k # call[f].link
    <2>1. Holders(k)' = Holders(k) /\ link'[k] = link[k]
      BY <1>1, <1>3, DropsHolders, DropsFacts DEF LinksBut
    <2> QED BY <2>1 DEF Moves
  <1> QED BY <1>2, <1>3

LEMMA RunClosersMoves ==
    ASSUME IInv, NEW f \in Frames, RunClosers(f), NEW k, Leased(k) PROVE Moves(k)
  <1> DEFINE l == call[f].link
  <1>1. Shape /\ k \in Made /\ k \in Links
    BY DEF IInv, Leased, Made
  <1>2. link'[k].ref = link[k].ref
    BY <1>1, RunClosersFacts DEF LinksBut
  <1>3. CASE link[l].below = k /\ link[l].counts
    <2>1. /\ Party(l) \in Holders(k)
          /\ Holders(k)' = (Holders(k) \ {Party(l)}) \cup {f}
      BY <1>1, <1>3, RunClosersHolders
    <2>2. ~(link[k].ref < 0)
      BY <2>1, HeldIsNotClosed
    <2> HIDE DEF l
    <2> QED BY <1>2, <2>1, <2>2, PartyFacts DEF Moves
  <1>4. CASE ~(link[l].below = k /\ link[l].counts)
    <2>1. Holders(k)' = Holders(k)
      BY <1>1, <1>4, RunClosersHolders
    <2> QED BY <1>2, <2>1 DEF Moves
  <1> QED BY <1>3, <1>4

LEMMA FetchOwnMoves ==
    ASSUME IInv, NEW f \in Frames, FetchOwn(f), NEW k, Leased(k) PROVE Moves(k)
  <1> PICK l \in Links : Fresh(l) /\ \A j : Holders(j)' = Holders(j)
    BY FetchOwnHolders DEF IInv
  <1>1. link'[k] = link[k]
    BY DEF Fresh, LinksBut, Leased, Made
  <1> QED BY <1>1 DEF Moves

LEMMA WrapMoves ==
    ASSUME IInv, NEW f \in Frames, Wrap(f), NEW k, Leased(k) PROVE Moves(k)
  <1> DEFINE h == Nested(f)
             b == call[h].link
  <1> PICK l \in Links : Fresh(l) /\ \A j :
              IF j = b /\ call[h].counts
                THEN /\ h \in Holders(j) /\ Party(l) \notin Holders(j)
                     /\ Holders(j)' = (Holders(j) \ {h}) \cup {Party(l)}
                ELSE Holders(j)' = Holders(j)
    BY WrapHolders DEF IInv
  <1>1. link'[k] = link[k]
    BY DEF Fresh, LinksBut, Leased, Made
  <1>2. CASE ~(k = b /\ call[h].counts)
    <2>1. Holders(k)' = Holders(k)
      BY <1>2
    <2> QED BY <1>1, <2>1 DEF Moves
  <1>3. CASE k = b /\ call[h].counts
    <2>1. h \in Holders(k) /\ Holders(k)' = (Holders(k) \ {h}) \cup {Party(l)}
      BY <1>3
    <2>2. ~(link[k].ref < 0)
      BY <2>1, HeldIsNotClosed
    <2> HIDE DEF h
    <2> QED BY <1>1, <2>1, <2>2, PartyFacts DEF Moves
  <1> QED BY <1>2, <1>3

\* The other steps leave the holders of a leased link alone.
LEMMA RestMoves ==
    ASSUME IInv, NEW k, Leased(k),
           Calm \/ \E f \in Frames : Borrows(f) \/ Restore(f) \/ GivesUp(f)
    PROVE  Moves(k)
  <1>1. Shape /\ k \in Made /\ k \in Links
    BY DEF IInv, Leased, Made
  <1>2. CASE Calm
    <2>1. \A j \in Links : SameLink(link[j], link'[j])
      BY <1>2 DEF Calm
    <2>2. \A g \in Frames : (call'[g].link = k /\ call'[g].counts) <=> (call[g].link = k /\ call[g].counts)
      BY <1>1, <1>2, CalmHolds
    <2>3. Holders(k)' = Holders(k)
      BY <2>1, <2>2, HoldersSame DEF SameLink
    <2> QED BY <1>1, <2>1, <2>3 DEF Moves, SameLink
  <1>3. ASSUME NEW f \in Frames, Borrows(f) PROVE Moves(k)
    <2>1. OthersSame(f) /\ ~call[f].counts /\ ~call'[f].counts /\ link' = link
      BY <1>1, <1>3, BorrowsFacts
    <2>2. Holders(k)' = Holders(k)
      BY <2>1, HoldersSame DEF OthersSame
    <2> QED BY <2>1, <2>2 DEF Moves
  <1>4. ASSUME NEW f \in Frames, Restore(f) PROVE Moves(k)
    <2>1. /\ \A j \in Links : link'[j].below = link[j].below /\ link'[j].counts = link[j].counts
          /\ OthersSame(f) /\ ~call[f].counts /\ ~call'[f].counts
      BY <1>1, <1>4, RestoreFacts DEF LinksBut, SameButRef
    <2>2. Holders(k)' = Holders(k)
      BY <2>1, HoldersSame DEF OthersSame
    <2>3. link'[k].ref < 0 <=> link[k].ref < 0
      <3>1. k = call[f].link => link[k].ref < 0 /\ link'[k].ref = Closed
        BY <1>1, <1>4, RestoreFacts DEF IInv, Refs, FrameRefs
      <3>2. k # call[f].link => link'[k] = link[k]
        BY <1>1, <1>4, RestoreFacts DEF LinksBut
      <3> QED BY <3>1, <3>2, FramesFinite
    <2> QED BY <2>2, <2>3 DEF Moves
  <1>5. ASSUME NEW f \in Frames, GivesUp(f) PROVE Moves(k)
    <2>1. OthersSame(f) /\ ~call'[f].counts /\ link' = link /\ link[call[f].link].ref < 0
      BY <1>1, <1>5, GivesUpFacts
    <2>2. ~(call[f].link = k /\ call[f].counts)
      BY <2>1, HoldersAre, HeldIsNotClosed
    <2>3. Holders(k)' = Holders(k)
      BY <2>1, <2>2, HoldersSame DEF OthersSame
    <2> QED BY <2>1, <2>3 DEF Moves
  <1> QED BY <1>2, <1>3, <1>4, <1>5

LEMMA NextMoves ==
    ASSUME IInv, IInv', [Next]_vars, NEW k, Leased(k), Leased(k)' PROVE Moves(k)
  <1>1. Shape /\ Low /\ StaysNegative
    BY NextLow DEF IInv
  <1> QED BY <1>1, Steps, RestMoves, JoinsMoves, DropsMoves, RunClosersMoves, FetchOwnMoves, WrapMoves

LEMMA LeaseIs ==
    ASSUME NEW l \in Links
    PROVE  /\ Leased(l) => /\ phase[l] = IF link[l].ref < 0 THEN "closed" ELSE "open"
                           /\ holders[l] = IF link[l].ref >= 0 THEN Holders(l) ELSE {}
           /\ ~Leased(l) => phase[l] = "none" /\ holders[l] = {}
BY DEF phase, holders, LeaseOf, Leased, Made

\* The same of the state after a step.
LEMMA LeaseWillBe ==
    ASSUME NEW l \in Links
    PROVE  /\ Leased(l)' => /\ phase'[l] = IF link'[l].ref < 0 THEN "closed" ELSE "open"
                            /\ holders'[l] = IF link'[l].ref >= 0 THEN Holders(l)' ELSE {}
           /\ ~Leased(l)' => phase'[l] = "none" /\ holders'[l] = {}
  <1>1. Leased(l)' <=> LeaseOf(l)'
    BY DEF LeaseOf, Leased, Made
  <1>2. phase'[l] = IF ~LeaseOf(l)' THEN "none"
                    ELSE IF link'[l].ref < 0 THEN "closed" ELSE "open"
    BY DEF phase
  <1>3. holders'[l] = IF LeaseOf(l)' /\ link'[l].ref >= 0 THEN Holders(l)' ELSE {}
    BY DEF holders
  <1> QED BY <1>1, <1>2, <1>3

\* In an initial state nothing is leased.
LEMMA LeaseInit == Init => Lease!Init
  <1> SUFFICES ASSUME Init PROVE Lease!Init
    OBVIOUS
  <1>1. \A l \in Links : ~LeaseOf(l)
    BY DEF Init, Unmade, LeaseOf
  <1>2. phase = [l \in Links |-> "none"] /\ holders = [l \in Links |-> {}]
    BY <1>1 DEF phase, holders
  <1> QED BY <1>2 DEF Lease!Init

\* A leased link moves as a lease does.
LEMMA LeaseMoves ==
    ASSUME IInv, IInv', NEW l \in Links, Leased(l), Leased(l)', Moves(l)
    PROVE  \/ Lease!Join(l) \/ Lease!Leave(l) \/ Lease!Pass(l) \/ Lease!Close(l) \/ Lease!Rest(l)
  <1>0. link[l].ref \in Int /\ link'[l].ref \in Int
    BY DEF IInv, Shape, LinksOK, LinkStates
  <1>1. /\ phase[l] = IF link[l].ref < 0 THEN "closed" ELSE "open"
        /\ holders[l] = IF link[l].ref < 0 THEN {} ELSE Holders(l)
        /\ phase'[l] = IF link'[l].ref < 0 THEN "closed" ELSE "open"
        /\ holders'[l] = IF link'[l].ref < 0 THEN {} ELSE Holders(l)'
    BY <1>0, LeaseIs, LeaseWillBe
  <1>2. CASE Holders(l)' = Holders(l) /\ (link'[l].ref < 0 <=> link[l].ref < 0)
    BY <1>1, <1>2 DEF Lease!Rest
  <1>3. CASE ~(link[l].ref < 0) /\ ~(link'[l].ref < 0)
    <2>1. /\ phase[l] = "open" /\ phase'[l] = "open"
          /\ holders[l] = Holders(l) /\ holders'[l] = Holders(l)'
      BY <1>1, <1>3
    <2>2. CASE \E p \in Parties : Holders(l)' = Holders(l) \cup {p}
      BY <2>1, <2>2 DEF Lease!Join, Parties
    <2>3. CASE \E p \in Holders(l) : Holders(l)' = Holders(l) \ {p}
      BY <2>1, <2>3 DEF Lease!Leave
    <2>4. CASE \E p \in Holders(l), q \in Parties : Holders(l)' = (Holders(l) \ {p}) \cup {q}
      BY <2>1, <2>4 DEF Lease!Pass, Parties
    <2> QED BY <1>2, <1>3, <2>2, <2>3, <2>4 DEF Moves
  <1>4. CASE /\ ~(link[l].ref < 0) /\ link'[l].ref < 0 /\ Holders(l)' = {}
             /\ \E p \in Parties : Holders(l) = {p}
    BY <1>1, <1>4 DEF Lease!Close, Parties
  <1> QED BY <1>2, <1>3, <1>4 DEF Moves

\* A link that is made is opened, and any other that is not leased stays so.
LEMMA LeaseOpens ==
    ASSUME IInv, IInv', [Next]_vars, NEW l \in Links, ~Leased(l)
    PROVE  Lease!Open(l) \/ Lease!Rest(l)
  <1>1. phase[l] = "none" /\ holders[l] = {}
    BY LeaseIs
  <1>2. CASE ~Leased(l)'
    BY <1>1, <1>2, LeaseWillBe DEF Lease!Rest
  <1>3. CASE Leased(l)'
    <2>1. l \notin Made
      <3>1. Kept
        BY NextKept DEF IInv
      <3> QED BY <1>3, <3>1 DEF Kept, Leased
    <2>2. l \in Made' /\ link'[l].kind # "expiring"
      BY <1>3 DEF Leased
    <2>3. link'[l].ref = 0 /\ Holders(l)' = {}
      <3>1. Shape /\ Low
        BY DEF IInv
      <3>2. PICK f \in Frames : FetchOwn(f) \/ Wrap(f)
        <4>1. ~Calm
          BY <2>1, <2>2 DEF Calm, SameLink, Made
        <4>2. ASSUME NEW f \in Frames, Joins(f) \/ Borrows(f) \/ Restore(f) \/ GivesUp(f)
                                       \/ Drops(f) \/ RunClosers(f)
              PROVE  FALSE
          <5>1. \A k \in Links : link'[k].file = link[k].file
            BY <3>1, <4>2, JoinsFacts, BorrowsFacts, RestoreFacts, GivesUpFacts, DropsFacts,
               RunClosersFacts DEF LinksBut, SameButRef
          <5> QED BY <2>1, <2>2, <5>1 DEF Made
        <4> QED BY <3>1, <4>1, <4>2, Steps
      <3>3. CASE FetchOwn(f)
        <4>1. PICK k \in Links : Fresh(k) /\ \A j : Holders(j)' = Holders(j)
          BY <3>1, <3>3, FetchOwnHolders
        <4>2. k = l
          BY <2>1, <2>2, <4>1 DEF Fresh
        <4> QED BY <2>1, <3>1, <4>1, <4>2, UnmadeIsFree DEF Fresh
      <3>4. CASE Wrap(f)
        <4> DEFINE h == Nested(f)
                   b == call[h].link
        <4>1. PICK k \in Links : Fresh(k) /\ \A j :
                  IF j = b /\ call[h].counts
                    THEN /\ h \in Holders(j) /\ Party(k) \notin Holders(j)
                         /\ Holders(j)' = (Holders(j) \ {h}) \cup {Party(k)}
                    ELSE Holders(j)' = Holders(j)
          BY <3>1, <3>4, WrapHolders
        <4>2. k = l /\ b \in Made
          BY <2>1, <2>2, <3>1, <3>4, <4>1, WrapFacts DEF Fresh
        <4>3. Holders(l)' = Holders(l)
          BY <2>1, <4>1, <4>2
        <4> QED BY <2>1, <3>1, <4>1, <4>2, <4>3, UnmadeIsFree DEF Fresh
      <3> QED BY <3>2, <3>3, <3>4
    <2>4. phase'[l] = "open" /\ holders'[l] = {}
      BY <1>3, <2>3, LeaseWillBe
    <2> QED BY <1>1, <2>4 DEF Lease!Open
  <1> QED BY <1>2, <1>3

LEMMA LeaseNext == IInv /\ IInv' /\ [Next]_vars => [Lease!Next]_(Lease!lease)
  <1> SUFFICES ASSUME IInv, IInv', [Next]_vars PROVE Lease!Next
    OBVIOUS
  <1>1. ASSUME NEW l \in Links, Leased(l) PROVE Leased(l)'
    BY <1>1, NextKept DEF IInv, Kept, Leased
  <1>2. ASSUME NEW l \in Links
        PROVE  \/ Lease!Open(l) \/ Lease!Join(l) \/ Lease!Leave(l) \/ Lease!Pass(l)
               \/ Lease!Close(l) \/ Lease!Rest(l)
    BY <1>1, NextMoves, LeaseMoves, LeaseOpens
  <1> QED BY <1>2 DEF Lease!Next

\* Every behaviour of the link cache is one of LinkLease: a link is opened once, joined
\* only while it is open, and closed once, by the last of those who hold it.
THEOREM CacheImplementsLease == Spec => ImplementsLease
BY Invariance, LeaseInit, LeaseNext, PTL DEF Spec, ImplementsLease, Lease!Spec
=============================================================================
