------------------------------ MODULE LinkCache ------------------------------
(***************************************************************************)
(* Getting, sharing and closing the link of a file: Link in                 *)
(* internal/op/fs.go, the link cache (internal/cache/typed_cache.go), the   *)
(* duplicate suppression it uses (pkg/singleflight) and the reference       *)
(* counter of a link (SyncClosers in pkg/utils/io.go).  DriverExtract in    *)
(* internal/op/archive.go runs the same steps on a cache of its own.        *)
(*                                                                         *)
(* A driver may build its link on the link of a file of another storage     *)
(* (drivers/crypt, alias, chunk, strm): it calls Link for that file and     *)
(* puts the result among the closers of its own link.  A caller is a        *)
(* goroutine that calls Link, uses what it gets and closes it.  Its call    *)
(* for a file and the nested one for the file below are two frames.         *)
(*                                                                         *)
(* An action is one atomic operation, one critical section, or one call of  *)
(* a driver.  Drivers are external: they answer with a link or an error     *)
(* (a panic ends the callers of the flight as an error does).  Paths are    *)
(* files, the bytes behind a link are left out.                             *)
(*                                                                         *)
(* A definition whose name starts with Faulty is the one after it with a    *)
(* mistake in it; nothing uses it.  It shows that a property would notice.  *)
(***************************************************************************)
EXTENDS Integers, FiniteSets

CONSTANTS Callers,
          Files,    \* cache keys: mount path and path
          Below,    \* file -> the file its link is built on, None for a real one
          Types,    \* type keys: link type, IP and user agent
          TypeOf,   \* caller -> file -> the type key of its calls for the file
          MaxLink,  \* bound: links ever made
          Kinds,    \* kinds of links the drivers make
          Closed,   \* math.MinInt32, the counter of a closed link
          None

\* Callers that try to join a closed link together do not lift its counter to
\* zero.  Drivers whose links need a reference set no expiration.
ASSUME LinkAssumption ==
    /\ IsFiniteSet(Callers) /\ IsFiniteSet(Files)
    /\ MaxLink \in Nat
    /\ Below \in [Files -> Files \cup {None}]
    /\ TypeOf \in [Callers -> [Files -> Types]]
    /\ Kinds \subseteq {"required", "plain", "expiring"}
    /\ None \notin Files \cup (1 .. MaxLink) \cup (Callers \X Files)
    /\ Closed \in Int
    /\ Closed + Cardinality(Callers \X Files) < 0
    /\ (Callers \X Files) \cap ((1 .. MaxLink) \X {"link"}) = {}

Links  == 1 .. MaxLink
Frames == Callers \X Files
File(f) == f[2]
Type(f) == TypeOf[f[1]][f[2]]
Slots  == Files \X Types
Slot(f) == <<File(f), Type(f)>>

\* The frame of the call a driver makes for the file below.
Nested(f) == <<f[1], Below[f[2]]>>

VARIABLES
    call,    \* frame -> its state
    link,    \* link -> its state
    top,     \* entries of the cache: file -> inner map, named after the first link in it
    inner,   \* inner map -> type key -> link; an inner map outlives its entry in top
    flight   \* slot -> the frame that runs the call of the singleflight group

vars == <<call, link, top, inner, flight>>

\* link: the one the frame deals with; counts: it holds a reference of it (history);
\* map: inner map it found its link in; seen: what Close has loaded.
In(pc, l, counts) == [pc |-> pc, link |-> l, counts |-> counts, map |-> None, seen |-> 0]
Idle == In("idle", None, FALSE)
\* file, and the link below with the reference it holds: set by the driver; over: its
\* expiration has passed; done: its closers have run.
Unmade == [file |-> None, kind |-> "plain", ref |-> 0, below |-> None, counts |-> FALSE,
           over |-> FALSE, done |-> FALSE]

Init ==
    /\ call = [f \in Frames |-> Idle]
    /\ link = [l \in Links |-> Unmade]
    /\ top = [k \in Files |-> None]
    /\ inner = [m \in Links |-> [t \in Types |-> None]]
    /\ flight = [s \in Slots |-> None]

Made == {l \in Links : link[l].file # None}
\* Links are numbered as they are made.
IsNew(l) == l \notin Made /\ \A m \in Links : m < l => m \in Made
IsNested(f) == \E g \in Frames : call[g].pc = "nested" /\ Nested(g) = f

To(f, pc, l, counts) == [call EXCEPT ![f] = In(pc, l, counts)]
At(f, pc) == To(f, pc, call[f].link, call[f].counts)
Again(f)  == To(f, "flight", None, FALSE)
\* A call that failed, or whose link the driver closed again, tells that driver.
Failed(f) == In(IF IsNested(f) THEN "failed" ELSE "idle", None, FALSE)
Ends(f)   == [call EXCEPT ![f] = Failed(f)]

-----------------------------------------------------------------------------
(* SyncClosers                                                              *)

\* Whether the resources of l are known to be closed.
Expired(l) == IF link[l].kind = "expiring" THEN link[l].over ELSE link[l].ref < 0

\* AcquireReference: the counter goes up before it is known whether l is open.
AddReference(f, next) ==
    LET l == call[f].link
    IN  /\ link' = [link EXCEPT ![l].ref = @ + 1]
        /\ call' = IF link[l].ref + 1 > 0 THEN To(f, "held", l, TRUE)
                                             ELSE To(f, next, l, FALSE)

\* It was closed: the counter goes back.  A link that stays usable is returned all
\* the same, and the call goes on otherwise.
RestoreClosed(f) ==
    LET l == call[f].link
    IN  /\ link' = [link EXCEPT ![l].ref = Closed]
        /\ call' = IF link[l].kind # "required" THEN To(f, "held", l, FALSE) ELSE Again(f)

Loaded(f) == LET x == call[f]
             IN  [call EXCEPT ![f] = [In("swap", x.link, x.counts) EXCEPT !.seen = link[x.link].ref]]

\* Close does not look whether the link is closed already.
FaultyCloseLoad(f) ==
    /\ call[f].pc = "close"
    /\ call' = Loaded(f)
    /\ UNCHANGED <<link, top, inner, flight>>

\* Close of a counter that is zero or one closes the link.
CloseLoad(f) ==
    /\ call[f].pc = "close"
    /\ call' = IF link[call[f].link].ref < 0
                 THEN Ends(f)
                 ELSE Loaded(f)
    /\ UNCHANGED <<link, top, inner, flight>>

\* Store in place of a compare-and-swap.
FaultyCloseSwap(f) ==
    LET l == call[f].link
        r == call[f].seen
    IN  /\ call[f].pc = "swap"
        /\ link' = [link EXCEPT ![l].ref = IF r > 1 THEN r - 1 ELSE Closed]
        /\ call' = IF r > 1 THEN Ends(f)
                            ELSE To(f, "closers", l, FALSE)
        /\ UNCHANGED <<top, inner, flight>>

CloseSwap(f) ==
    LET l == call[f].link
        r == call[f].seen
    IN  /\ call[f].pc = "swap"
        /\ \/ /\ link[l].ref # r
              /\ call' = At(f, "close")
              /\ UNCHANGED link
           \/ /\ link[l].ref = r
              /\ link' = [link EXCEPT ![l].ref = IF r > 1 THEN r - 1 ELSE Closed]
              /\ call' = IF r > 1 THEN Ends(f)
                                  ELSE To(f, "closers", l, FALSE)
        /\ UNCHANGED <<top, inner, flight>>

\* Only the driver's own resources are closed, not the link it was built on.
FaultyRunClosers(f) ==
    /\ call[f].pc = "closers"
    /\ link' = [link EXCEPT ![call[f].link].done = TRUE, ![call[f].link].below = None,
                            ![call[f].link].counts = FALSE]
    /\ call' = Ends(f)
    /\ UNCHANGED <<top, inner, flight>>

\* Every link is taken to be built on another one.
FaultyRunAllClosers(f) ==
    LET l == call[f].link
    IN  /\ call[f].pc = "closers"
        /\ link' = [link EXCEPT ![l].done = TRUE, ![l].below = None, ![l].counts = FALSE]
        /\ call' = To(f, "close", link[l].below, link[l].counts)
        /\ UNCHANGED <<top, inner, flight>>

\* The closers run once the counter is down; among them is the link below.
RunClosers(f) ==
    LET l == call[f].link
    IN  /\ call[f].pc = "closers"
        /\ link' = [link EXCEPT ![l].done = TRUE, ![l].below = None, ![l].counts = FALSE]
        /\ call' = IF link[l].below = None
                     THEN Ends(f)
                     ELSE To(f, "close", link[l].below, link[l].counts)
        /\ UNCHANGED <<top, inner, flight>>

-----------------------------------------------------------------------------
(* TypedCache                                                               *)

\* A goroutine calls Link for one file at a time, unless a driver calls it in turn.
MayCall(f) == IF IsNested(f) THEN call[f].pc = "idle"
                             ELSE \A k \in Files : call[<<f[1], k>>].pc = "idle"

\* Link starts with GetType, under the read lock: the entry, unless it has expired.
Lookup(f) ==
    LET m == top[File(f)]
        l == IF m = None THEN None ELSE inner[m][Type(f)]
    IN  /\ MayCall(f)
        /\ \/ l = None /\ call' = Again(f)
           \/ /\ l # None /\ Expired(l)
              /\ call' = [call EXCEPT ![f] = [In("evict", l, FALSE) EXCEPT !.map = m]]
           \/ /\ l # None /\ ~Expired(l)
              /\ call' = To(f, "hit", l, FALSE)
        /\ UNCHANGED <<link, top, inner, flight>>

\* GetType, under the write lock: an expired entry is removed from the inner map it was
\* found in.  When that map is empty, the entry of the file goes, whichever map it is.
Evict(f) ==
    LET m == call[f].map
        left == [inner EXCEPT ![m][Type(f)] = None]
        same == inner[m][Type(f)] = call[f].link
    IN  /\ call[f].pc = "evict"
        /\ inner' = IF same THEN left ELSE inner
        /\ top' = IF same /\ \A t \in Types : left[m][t] = None
                    THEN [top EXCEPT ![File(f)] = None] ELSE top
        /\ call' = Again(f)
        /\ UNCHANGED <<link, flight>>

\* SetTypeWithExpirable.
Store(f) ==
    LET l == call[f].link
        m == IF top[File(f)] = None THEN l ELSE top[File(f)]
    IN  /\ call[f].pc = "store"
        /\ top' = [top EXCEPT ![File(f)] = m]
        /\ inner' = [inner EXCEPT ![m][Type(f)] = l]
        /\ call' = At(f, "finish")
        /\ UNCHANGED <<link, flight>>

\* The entries of some files go.  Their inner maps are garbage, unless a GetType is
\* about to evict from one.
Drop(K) ==
    /\ \E k \in K : top[k] # None
    /\ top' = [k \in Files |-> IF k \in K THEN None ELSE top[k]]
    /\ inner' = [m \in Links |->
                   IF /\ \E k \in K : top[k] = m
                      /\ ~\E f \in Frames : call[f].pc = "evict" /\ call[f].map = m
                     THEN [t \in Types |-> None] ELSE inner[m]]
    /\ UNCHANGED <<call, link, flight>>

\* The file was removed, renamed, moved or overwritten.
DeleteKey(k) == Drop({k})
\* A setting was changed.
Clear == Drop(Files)

\* GC: expired entries go, and inner maps that are empty then.
Stale(k) == {t \in Types : /\ top[k] # None /\ inner[top[k]][t] # None
                           /\ Expired(inner[top[k]][t])}
GC ==
    /\ \E k \in Files : Stale(k) # {}
    /\ inner' = [m \in Links |-> [t \in Types |->
                   IF \E k \in Files : top[k] = m /\ t \in Stale(k) THEN None ELSE inner[m][t]]]
    /\ top' = [k \in Files |->
                 IF Stale(k) # {} /\ \A t \in Types \ Stale(k) : inner[top[k]][t] = None
                   THEN None ELSE top[k]]
    /\ UNCHANGED <<call, link, flight>>

\* The expiration of a cached link passes.
Expire(l) ==
    /\ link[l].kind = "expiring" /\ ~link[l].over
    /\ \E m \in Links, t \in Types : inner[m][t] = l
    /\ link' = [link EXCEPT ![l].over = TRUE]
    /\ UNCHANGED <<call, top, inner, flight>>

-----------------------------------------------------------------------------
(* Link                                                                     *)

\* A hit is used without a reference when the link is not required to be open.
FaultyHit(f) ==
    LET l == call[f].link
    IN  /\ call[f].pc = "hit"
        /\ call' = To(f, "held", l, FALSE)
        /\ UNCHANGED <<link, top, inner, flight>>

\* A hit: a link with an expiration is used as it is, any other after joining it.
Hit(f) ==
    LET l == call[f].link
    IN  /\ call[f].pc = "hit"
        /\ IF link[l].kind = "expiring"
             THEN call' = To(f, "held", l, FALSE) /\ UNCHANGED link
             ELSE AddReference(f, "restore")
        /\ UNCHANGED <<top, inner, flight>>

\* Frame g waits for the flight that f runs; both get its answer when doCall ends.
Awaits(g, f) == call[g].pc = "wait" /\ Slot(g) = Slot(f)

\* linkG.Do: join the call in flight, or run one.
Do(f) ==
    /\ call[f].pc = "flight"
    /\ IF flight[Slot(f)] # None
         THEN call' = At(f, "wait") /\ UNCHANGED flight
         ELSE call' = At(f, "fetch") /\ flight' = [flight EXCEPT ![Slot(f)] = f]
    /\ UNCHANGED <<link, top, inner>>

\* GetUnwrap or the driver fails, or the file is a directory.
FetchFails(f) ==
    /\ call[f].pc = "fetch" \/ (call[f].pc = "nested" /\ call[Nested(f)].pc = "failed")
    /\ flight' = [flight EXCEPT ![Slot(f)] = None]
    /\ call' = [g \in Frames |->
                  IF g = f \/ Awaits(g, f) THEN Failed(g)
                  ELSE IF call[f].pc = "nested" /\ g = Nested(f) THEN Idle
                  ELSE call[g]]
    /\ UNCHANGED <<link, top, inner>>

\* The driver makes a link of its own.
FetchOwn(f) ==
    /\ call[f].pc = "fetch" /\ Below[File(f)] = None
    /\ \E l \in Links, kind \in Kinds :
        /\ IsNew(l)
        /\ link' = [link EXCEPT ![l] = [Unmade EXCEPT !.file = File(f), !.kind = kind]]
        /\ call' = To(f, "store", l, FALSE)
    /\ UNCHANGED <<top, inner, flight>>

\* The driver calls Link for the file below.
FetchBelow(f) ==
    /\ call[f].pc = "fetch" /\ Below[File(f)] # None
    /\ call' = At(f, "nested")
    /\ UNCHANGED <<link, top, inner, flight>>

\* crypt and alias drop the expiration of the link below, chunk and strm keep it.
WrappedKinds(kind) == IF kind = "expiring" THEN {"plain", "expiring"} ELSE {kind}

\* The driver builds its link on the one below, whose reference it takes over.
Wrap(f) ==
    LET n == call[Nested(f)]
    IN  /\ call[f].pc = "nested" /\ n.pc = "held"
        /\ \E l \in Links, kind \in WrappedKinds(link[n.link].kind) :
            /\ IsNew(l)
            /\ link' = [link EXCEPT ![l] = [Unmade EXCEPT !.file = File(f), !.kind = kind,
                                                          !.below = n.link, !.counts = n.counts]]
            /\ call' = [To(f, "store", l, FALSE) EXCEPT ![Nested(f)] = Idle]
        /\ UNCHANGED <<top, inner, flight>>

\* The driver cannot use the link below: it closes it, and fails.
Unwrap(f) ==
    /\ call[f].pc = "nested" /\ call[Nested(f)].pc = "held"
    /\ call' = At(Nested(f), "close")
    /\ UNCHANGED <<link, top, inner, flight>>

\* The flight lands with a link, which everyone has to join for himself.
Finish(f) ==
    /\ call[f].pc = "finish"
    /\ flight' = [flight EXCEPT ![Slot(f)] = None]
    /\ call' = [g \in Frames |->
                  IF g = f \/ Awaits(g, f)
                    THEN In("join", call[f].link, FALSE) ELSE call[g]]
    /\ UNCHANGED <<link, top, inner>>

\* The result of a flight is taken for a link one holds.
FaultyJoin(f) ==
    /\ call[f].pc = "join"
    /\ call' = To(f, "held", call[f].link, FALSE)
    /\ UNCHANGED <<link, top, inner, flight>>

\* After the flight: join the link, or try again when it was closed meanwhile.
Join(f) ==
    /\ call[f].pc = "join"
    /\ AddReference(f, "restore")
    /\ UNCHANGED <<top, inner, flight>>

Restore(f) ==
    /\ call[f].pc = "restore"
    /\ RestoreClosed(f)
    /\ UNCHANGED <<top, inner, flight>>

\* The user of a link closes it.
Close(f) ==
    /\ call[f].pc = "held" /\ ~IsNested(f)
    /\ call' = At(f, "close")
    /\ UNCHANGED <<link, top, inner, flight>>

-----------------------------------------------------------------------------

Proceeds(f) ==
    \/ Lookup(f) \/ Evict(f) \/ Store(f)
    \/ Hit(f) \/ Do(f) \/ FetchFails(f) \/ FetchOwn(f) \/ FetchBelow(f) \/ Wrap(f) \/ Unwrap(f)
    \/ Finish(f) \/ Join(f) \/ Restore(f)
    \/ CloseLoad(f) \/ CloseSwap(f) \/ RunClosers(f)

Next ==
    \/ \E f \in Frames : Proceeds(f) \/ Close(f)
    \/ \E k \in Files : DeleteKey(k)
    \/ Clear \/ GC
    \/ \E l \in Links : Expire(l)

Spec == Init /\ [][Next]_vars

-----------------------------------------------------------------------------
(* Properties                                                               *)

Pcs == {"idle", "evict", "hit", "restore", "flight", "wait", "fetch", "nested",
        "store", "finish", "join", "held", "failed", "close", "swap", "closers"}
Calls == [pc : Pcs, link : Links \cup {None}, counts : BOOLEAN, map : Links \cup {None},
          seen : Int]
LinkStates == [file : Files \cup {None}, kind : {"required", "plain", "expiring"}, ref : Int,
               below : Links \cup {None}, counts : BOOLEAN, over : BOOLEAN, done : BOOLEAN]

\* Frames that deal with a link.
Linked == {"evict", "hit", "restore", "store", "finish", "join", "held", "close", "swap", "closers"}

\* Types of the variables; a frame deals with a link that was made.
TypeOK ==
    /\ call \in [Frames -> Calls]
    /\ \A f \in Frames : call[f].pc \in Linked => call[f].link \in Made
    /\ link \in [Links -> LinkStates]
    /\ top \in [Files -> Links \cup {None}]
    /\ inner \in [Links -> [Types -> Links \cup {None}]]
    /\ flight \in [Slots -> Frames \cup {None}]

\* Who holds a reference of l: frames, and links that were built on it.
Holders(l) == {f \in Frames : call[f].link = l /\ call[f].counts}
              \cup {p \in Links \X {"link"} : link[p[1]].below = l /\ link[p[1]].counts}

\* The resources behind a link are open, those of the links below included.
Usable(l) == /\ link[l].ref > 0
             /\ link[l].below # None => link[link[l].below].ref > 0

\* A link that is unusable once its resources are closed is open, down to the link it
\* was built on, for as long as someone uses it: joining races the last close, and a
\* hit, a waiter and the leader of a flight all share it (RequireReference).
HeldIsOpen ==
    \A f \in Frames : call[f].pc = "held" /\ link[call[f].link].kind = "required"
                          => Usable(call[f].link)

\* The counter of an open link is the number of its holders, so that the last close
\* closes it and no earlier one does.
CounterIsHolders ==
    \A l \in Made : link[l].kind # "expiring" /\ link[l].ref >= 0
                       => link[l].ref = Cardinality(Holders(l))

\* The closers of a link run once: by the frame that brought the counter down, and
\* nobody lifts the counter again.
Closing(f, l) == call[f].pc = "closers" /\ call[f].link = l
ClosedOnce ==
    \A l \in Made :
        /\ link[l].done => link[l].ref < 0
        /\ link[l].ref < 0 /\ ~link[l].done => \E f \in Frames : Closing(f, l)
        /\ \A f \in Frames : Closing(f, l) => /\ link[l].ref < 0 /\ ~link[l].done
                                             /\ \A g \in Frames : Closing(g, l) => g = f

\* A link that was made is closed by someone: it is never left open in the cache, or
\* dropped from it, with nobody about to join or close it.
NoLeak ==
    \A l \in Made : link[l].ref >= 0 =>
        \/ \E f \in Frames : /\ call[f].link = l
                             /\ call[f].pc \in {"store", "finish", "join", "held", "close", "swap"}
        \/ \E o \in Links : link[o].below = l

\* A link is leased to its holders: LinkLease.
LeaseOf(l) == link[l].file # None /\ link[l].kind # "expiring"
phase == [l \in Links |-> IF ~LeaseOf(l) THEN "none"
                          ELSE IF link[l].ref < 0 THEN "closed" ELSE "open"]
holders == [l \in Links |-> IF LeaseOf(l) /\ link[l].ref >= 0 THEN Holders(l) ELSE {}]
Lease == INSTANCE LinkLease WITH Parties <- Frames \cup Links \X {"link"}
ImplementsLease == Lease!Spec
=============================================================================
