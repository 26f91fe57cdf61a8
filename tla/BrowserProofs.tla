--------------------------- MODULE BrowserProofs ---------------------------
(***************************************************************************)
(* Two theorems about what a page shows, on any page, in any order of loads, *)
(* failures and commands, however often a command is issued.                 *)
(*                                                                           *)
(* NeverOlder: the data of a React Query query never go back to an older     *)
(* version while they are cached. The reason: a query has one load at most,  *)
(* and that load was read no earlier than the data shown, because a new load *)
(* replaces the one before it.                                               *)
(*                                                                           *)
(* ShowsItsEffect: after a command, the data are no older than its write, on *)
(* pages that obey the rule Covering. The rule is about the tables in Hooks  *)
(* and Pages alone; EffectInv says why it is enough: from the answer to the  *)
(* command on, no load on its way is older than the write, and older data    *)
(* are being replaced, or are marked to be as soon as the query is mounted.  *)
(***************************************************************************)
EXTENDS Browser, SequenceTheorems, TLAPS

\* An entry of the cache at version n: nothing on its way is older than the data.
Sound(e, n) ==
    /\ e \in [data : Int, loads : Seq(Int), stale : BOOLEAN, failed : BOOLEAN]
    /\ e.data \in None..n
    /\ \/ e.loads = <<>>
       \/ \E v \in {Unread} \union (e.data..n) : e.loads = <<v>>

\* The tour is one of Tours; the entry of a query, unlike the state of a component, is sound.
Fresh ==
    /\ \A q \in tour.command.patch : q.mode = "local"
    /\ version \in Nat
    /\ ~IsLocal => Sound(entry, version)

-----------------------------------------------------------------------------
(* The operations of the cache. Each keeps the data. *)

\* A new load in the place of whatever was on its way.
LEMMA OneLoad ==
    ASSUME NEW n \in Nat, NEW e, Sound(e, n)
    PROVE  Sound([e EXCEPT !.loads = <<Unread>>], n)
<1> DEFINE f == [e EXCEPT !.loads = <<Unread>>]
<1>1. <<Unread>> \in Seq(Int)
  BY DEF Unread
<1>2. f \in [data : Int, loads : Seq(Int), stale : BOOLEAN, failed : BOOLEAN]
  BY <1>1 DEF Sound
<1>3. f.data = e.data /\ f.loads = <<Unread>>
  BY DEF Sound
<1> HIDE DEF f
<1>4. Sound(f, n)
  BY <1>2, <1>3 DEF Sound
<1> QED BY <1>4 DEF f

\* Marking an entry stale leaves it sound.
LEMMA Staled ==
    ASSUME NEW n \in Nat, NEW e, Sound(e, n)
    PROVE  Sound([e EXCEPT !.stale = TRUE], n)
BY DEF Sound, None, Unread

\* No data and no load.
LEMMA EmptySound ==
    ASSUME NEW n \in Nat
    PROVE  Sound(Empty, n)
BY DEF Sound, Empty, None, Unread

\* Mounting a component that shows the query and unmounting it.
LEMMA MountSound ==
    ASSUME NEW n \in Nat, NEW e, Sound(e, n), ~IsLocal
    PROVE  Sound(Mount(e), n) /\ Mount(e).data = e.data /\ Unmount(e) = e
<1>1. Unmount(e) = e
  BY DEF Unmount
<1>2. Mount(e) = e \/ Mount(e) = [e EXCEPT !.loads = <<Unread>>]
  BY DEF Mount
<1>3. [e EXCEPT !.loads = <<Unread>>].data = e.data
  BY DEF Sound
<1> QED BY <1>1, <1>2, <1>3, OneLoad

\* A refetch that cancels the load before it.
LEMMA RefetchSound ==
    ASSUME NEW n \in Nat, NEW e, Sound(e, n)
    PROVE  Sound(Refetch(e), n) /\ Refetch(e).data = e.data
<1>1. Refetch(e) = e \/ Refetch(e) = [e EXCEPT !.loads = <<Unread>>]
  BY DEF Refetch
<1>2. [e EXCEPT !.loads = <<Unread>>].data = e.data
  BY DEF Sound
<1> QED BY <1>1, <1>2, OneLoad

\* invalidateQueries marks an entry, and may replace its load.
LEMMA InvalidateSound ==
    ASSUME NEW n \in Nat, NEW e, Sound(e, n)
    PROVE  Sound(Invalidate(e), n) /\ Invalidate(e).data = e.data
<1> DEFINE s == [e EXCEPT !.stale = TRUE]
<1>1. Sound(s, n) /\ s.data = e.data
  BY Staled DEF Sound
<1>2. Sound(Refetch(s), n) /\ Refetch(s).data = e.data
  BY <1>1, RefetchSound
<1>3. Invalidate(e) \in {e, s, Refetch(s)}
  BY DEF Invalidate
<1> QED BY <1>1, <1>2, <1>3

\* What a handler does when its command has succeeded.
LEMMA UpdatedSound ==
    ASSUME Fresh, ~IsLocal, NEW n \in Nat, Sound(entry, n)
    PROVE  /\ Sound(Updated(tour.command, entry), n)
           /\ Updated(tour.command, entry).data = entry.data
<1> DEFINE invalidated == IF Invalidates(tour.command, query) THEN Invalidate(entry) ELSE entry
           loaded == IF query \in tour.command.again THEN LoadAgain(invalidated) ELSE invalidated
<1>1. query \notin tour.command.patch
  BY DEF Fresh, IsLocal
<1>2. Sound(invalidated, n) /\ invalidated.data = entry.data
  BY InvalidateSound
<1>3. Sound(loaded, n) /\ loaded.data = entry.data
  BY <1>2, RefetchSound DEF LoadAgain
<1>4. Updated(tour.command, entry) = loaded
  BY <1>1 DEF Updated
<1> QED BY <1>3, <1>4

\* A later version leaves an entry sound.
LEMMA SoundLater ==
    ASSUME NEW n \in Nat, NEW e, Sound(e, n)
    PROVE  Sound(e, n + 1)
BY DEF Sound, None, Unread

\* Going to a page may mount the query.
LEMMA EnterSound ==
    ASSUME ~IsLocal, NEW n \in Nat, NEW e, Sound(e, n), NEW page, Enter(page, e)
    PROVE  Sound(entry', n) /\ entry'.data = e.data
<1>1. entry' \in {e, Mount(e)}
  BY MountSound DEF Enter
<1> QED BY <1>1, MountSound

-----------------------------------------------------------------------------
(* The steps. *)

\* A step that does not change the tour keeps what kind of query it is.
LEMMA SameQuery ==
    ASSUME tour' = tour
    PROVE  query' = query /\ IsLocal' = IsLocal
BY DEF query, IsLocal

\* The handlers of a tour patch no query.
LEMMA ToursPatch ==
    ASSUME NEW t \in Tours
    PROVE  \A q \in t.command.patch : q.mode = "local"
<1>1. PICK p \in DOMAIN Pages : \E c \in Pages[p].does : t.command = c
  BY DEF Tours, ToursOf
<1> QED BY <1>1, PatchAssumption

\* One case per action: the entry stays sound and its data do not go back.
LEMMA FreshStep ==
    ASSUME Fresh, [Next]_vars
    PROVE  Fresh' /\ NotOlder
<1> DEFINE Goal == Fresh' /\ NotOlder
<1>0. ASSUME tour' = tour, entry' = entry, version' = version PROVE Goal
  BY <1>0 DEF Fresh, NotOlder, IsLocal, query, Sound, None
<1>a. ASSUME tour' = tour, version' = version,
             ~IsLocal => Sound(entry', version) /\ (entry'.data = None \/ entry'.data >= entry.data)
      PROVE  Goal
  BY <1>a DEF Fresh, NotOlder, IsLocal, query
<1>b. ~IsLocal => Sound(entry, version) /\ entry.data \in Int /\ version \in Nat
  BY DEF Fresh, Sound
<1>1. CASE UNCHANGED vars
  BY <1>0, <1>1 DEF vars, server
<1>2. ASSUME NEW page \in DOMAIN Pages, Go(page) PROVE Goal
  BY <1>2, <1>a, <1>b, EnterSound DEF Go, server
<1>3. CASE Open
  BY <1>3, <1>a, <1>b, MountSound DEF Open, server
<1>4. CASE Close
  BY <1>4, <1>a, <1>b, MountSound DEF Close, server
<1>5. CASE Issue
  BY <1>5, <1>0 DEF Issue, server
<1>6. CASE Ask
  BY <1>6, <1>a, <1>b, RefetchSound DEF Ask, LoadAgain, server
<1>7. CASE Focus
  BY <1>7, <1>a, <1>b, OneLoad DEF Focus, server, Sound
<1>8. CASE Write
  BY <1>8, <1>b, SoundLater DEF Write, Fresh, NotOlder, IsLocal, query
<1>9. CASE WriteLater
  BY <1>9, <1>b, SoundLater DEF WriteLater, Fresh, NotOlder, IsLocal, query
<1>10. CASE Fail
  BY <1>10, <1>0 DEF Fail, server
<1>11. CASE Answer
  BY <1>11, <1>a, <1>b, UpdatedSound, EnterSound DEF Answer, server
<1>12. ASSUME NEW i \in DOMAIN entry.loads, Read(i) PROVE Goal
  BY <1>12, <1>a, <1>b DEF Read, server, Sound, None, Unread
<1>13. ASSUME NEW i \in DOMAIN entry.loads, Receive(i) PROVE Goal
  <2>1. ASSUME ~IsLocal
        PROVE  Sound(entry', version) /\ (entry'.data = None \/ entry'.data >= entry.data)
    <3>1. PICK v \in {Unread} \union (entry.data..version) : entry.loads = <<v>>
      BY <1>13, <1>b, <2>1 DEF Sound
    <3>2. i = 1 /\ entry.loads[i] = v /\ v # Unread
      BY <1>13, <3>1 DEF Receive
    <3>3. Without(entry.loads, i) = <<>>
      BY <3>1, <3>2 DEF Without
    <3>4. entry' = [data |-> v, loads |-> <<>>, stale |-> FALSE, failed |-> FALSE]
      BY <1>13, <3>2, <3>3 DEF Receive
    <3>5. entry.data \in None..version /\ v \in entry.data..version
      BY <1>b, <2>1, <3>1, <3>2 DEF Sound
    <3> QED BY <3>4, <3>5, <1>b, <2>1 DEF Sound, None
  <2> QED BY <1>13, <1>a, <2>1 DEF Receive, server
<1>14. ASSUME NEW i \in DOMAIN entry.loads, LoadFails(i) PROVE Goal
  <2>1. UNCHANGED <<tour, at, open, server>>
    BY <1>14 DEF LoadFails
  <2>2. ASSUME ~IsLocal PROVE Sound(entry', version) /\ entry'.data = entry.data
    <3>1. entry' = [data |-> entry.data, loads |-> Without(entry.loads, i),
                    stale |-> TRUE, failed |-> TRUE]
      BY <1>14, <2>2 DEF LoadFails
    <3>2. Without(entry.loads, i) = <<>>
      <4>1. PICK v \in {Unread} \union (entry.data..version) : entry.loads = <<v>> /\ i = 1
        BY <1>14, <1>b, <2>2 DEF Sound
      <4> QED BY <4>1 DEF Without
    <3>3. entry.data \in Int
      BY <1>b, <2>2 DEF Sound
    <3> QED BY <3>1, <3>2, <3>3, <1>b, <2>2 DEF Sound
  <2> QED BY <2>1, <2>2, <1>a, <1>b DEF server
<1>15. CASE Poll
  BY <1>15, <1>a, <1>b, OneLoad DEF Poll, server, Sound
<1>16. CASE Age
  BY <1>16, <1>a, <1>b, Staled DEF Age, server, Sound
<1>17. CASE Gc
  BY <1>17, <1>a, <1>b, EmptySound DEF Gc, server, Empty
<1> QED
  BY <1>1, <1>2, <1>3, <1>4, <1>5, <1>6, <1>7, <1>8, <1>9, <1>10, <1>11, <1>12, <1>13, <1>14,
     <1>15, <1>16, <1>17 DEF Next

\* A tour starts with an empty cache.
LEMMA Start ==
    ASSUME Init
    PROVE  Fresh
BY ToursPatch, EmptySound DEF Init, Fresh

\* What a query shows never goes back to an older version while it is cached.
THEOREM NeverOlderHolds == Spec => NeverOlder
<1>1. Fresh /\ [Next]_vars => Fresh' /\ [NotOlder]_vars
  BY FreshStep
<1> QED BY <1>1, Start, PTL DEF Spec, NeverOlder

-----------------------------------------------------------------------------
(* What is shown after a command. *)

\* Somebody sees to query q when command c has succeeded: the hook invalidates its key and
\* it loads by itself, the handler loads it again, or it patches the component's state.
SeesTo(c, q) ==
    \/ Invalidates(c, q) /\ q.mode # "manual"
    \/ q \in c.again
    \/ q \in c.patch /\ q.mode = "local"

\* The rule that the pages obey: a page, and the page that its command goes to, sees to every
\* query it shows that the command writes, and a hook does to those it invalidates, apart from
\* the known gaps.
Covers(t) ==
    /\ Written(t.command, t.query)
    /\ <<t.command.m, t.query>> \notin KnownGaps
    /\ \/ Invalidates(t.command, t.query)
       \/ \E p \in {t.page, t.command.then} \ {"stay"} : Shows(p, t.query)
    => SeesTo(t.command, t.query)

Covering == \A t \in Tours : Covers(t)

Entries == [data : Int, loads : Seq(Nat \union {Unread}), stale : BOOLEAN, failed : BOOLEAN]

\* An entry of query q that caught up with version n: no load on its way was read before it,
\* and data older than it are being replaced, or will be as soon as the query is shown.
CaughtUp(e, q, shown, n) ==
    /\ \A i \in DOMAIN e.loads : e.loads[i] = Unread \/ e.loads[i] >= n
    /\ \/ e.data = None \/ e.data >= n
       \/ e.failed \/ e.loads # <<>>
       \/ e.stale /\ ~shown /\ q.mode # "manual"

\* The strengthening of ShowsItsEffect.
EffectInv ==
    /\ tour \in Tours /\ at # "stay"
    /\ version \in Nat /\ acked \in 0..version
    /\ entry \in Entries
    /\ (IsLocal /\ ~Mounted) => entry = Empty
    /\ (SeesTo(tour.command, query) /\ ~crossed) => CaughtUp(entry, query, Mounted, acked)

\* An empty entry, one that loads and one that is marked stale are entries; their loads.
LEMMA EntryEdits ==
    ASSUME NEW e \in Entries
    PROVE  /\ Empty \in Entries /\ Empty.loads = <<>> /\ Empty.data = None
           /\ [e EXCEPT !.loads = <<Unread>>] \in Entries
           /\ [e EXCEPT !.loads = <<Unread>>].loads = <<Unread>>
           /\ [e EXCEPT !.loads = <<Unread>>].data = e.data
           /\ [e EXCEPT !.loads = <<Unread>>].stale = e.stale
           /\ [e EXCEPT !.stale = TRUE] \in Entries
           /\ [e EXCEPT !.stale = TRUE].loads = e.loads
           /\ [e EXCEPT !.stale = TRUE].data = e.data
           /\ [e EXCEPT !.stale = TRUE].stale = TRUE
           /\ [e EXCEPT !.stale = TRUE].failed = e.failed
<1>1. <<Unread>> \in Seq(Nat \union {Unread}) /\ <<>> \in Seq(Nat \union {Unread})
  OBVIOUS
<1>2. None \in Int
  BY DEF None
<1> QED BY <1>1, <1>2 DEF Entries, Empty

\* An entry with a new load and no other has caught up with every version.
LEMMA LoadingCaughtUp ==
    ASSUME NEW e, e.loads = <<Unread>>, NEW q, NEW shown, NEW n
    PROVE  CaughtUp(e, q, shown, n)
<1>1. e.loads # <<>> /\ \A i \in DOMAIN e.loads : e.loads[i] = Unread
  OBVIOUS
<1> QED BY <1>1 DEF CaughtUp

\* An empty entry has nothing old to show.
LEMMA EmptyCaughtUp ==
    ASSUME NEW q, NEW shown, NEW n
    PROVE  CaughtUp(Empty, q, shown, n)
BY DEF CaughtUp, Empty

\* What is not shown has caught up if it would have as shown.
LEMMA HiddenCaughtUp ==
    ASSUME NEW e, NEW q, NEW shown \in BOOLEAN, NEW n, CaughtUp(e, q, shown, n)
    PROVE  CaughtUp(e, q, FALSE, n)
BY DEF CaughtUp

\* Removing a load from those on their way adds none.
LEMMA WithoutLoads ==
    ASSUME NEW S, NEW s \in Seq(S), NEW i \in DOMAIN s
    PROVE  /\ Without(s, i) \in Seq(S)
           /\ \A k \in DOMAIN Without(s, i) : \E j \in DOMAIN s : Without(s, i)[k] = s[j]
<1> DEFINE T == {s[j] : j \in DOMAIN s}
<1>1. s \in Seq(T) /\ T \subseteq S
  OBVIOUS
<1> HIDE DEF T
<1>2. SubSeq(s, 1, i - 1) \in Seq(T) /\ SubSeq(s, i + 1, Len(s)) \in Seq(T)
  BY <1>1
<1>3. Without(s, i) \in Seq(T)
  BY <1>2 DEF Without
<1>4. Without(s, i) \in Seq(S)
  BY <1>1, <1>3
<1>5. \A k \in DOMAIN Without(s, i) : Without(s, i)[k] \in T
  BY <1>3
<1> QED BY <1>4, <1>5 DEF T

\* A query that is mounted loads what it lacks.
LEMMA MountCaughtUp ==
    ASSUME NEW e \in Entries
    PROVE  /\ Mount(e) \in Entries
           /\ \A shown \in BOOLEAN : \A n : IsLocal \/ CaughtUp(e, query, shown, n)
                                          => CaughtUp(Mount(e), query, TRUE, n)
<1>1. CASE IsLocal
  <2>1. Mount(e) = [Empty EXCEPT !.loads = <<Unread>>]
    BY <1>1 DEF Mount, IsLocal
  <2>2. Mount(e) \in Entries /\ Mount(e).loads = <<Unread>>
    BY <2>1, EntryEdits
  <2> QED BY <2>2, LoadingCaughtUp
<1>2. CASE ~IsLocal /\ Mount(e) = e
  <2>1. query.mode = "manual" \/ e.loads # <<>> \/ (e.data # None /\ ~e.stale)
    <3>1. CASE query.mode # "manual" /\ e.loads = <<>> /\ (e.data = None \/ e.stale)
      <4>1. Mount(e) = [e EXCEPT !.loads = <<Unread>>]
        BY <1>2, <3>1 DEF Mount
      <4>2. Mount(e).loads = <<Unread>>
        BY <4>1, EntryEdits
      <4> QED BY <1>2, <3>1, <4>2
    <3> QED BY <3>1
  <2> QED BY <1>2, <2>1 DEF CaughtUp
<1>3. CASE ~IsLocal /\ Mount(e) = [e EXCEPT !.loads = <<Unread>>]
  <2>1. Mount(e) \in Entries /\ Mount(e).loads = <<Unread>>
    BY <1>3, EntryEdits
  <2> QED BY <2>1, LoadingCaughtUp
<1>4. ~IsLocal => Mount(e) = e \/ Mount(e) = [e EXCEPT !.loads = <<Unread>>]
  BY DEF Mount
<1> QED BY <1>1, <1>2, <1>3, <1>4

\* Entering a page: the query is mounted anew, stays, or goes.
LEMMA EnterCaughtUp ==
    ASSUME tour' = tour, NEW page, NEW e \in Entries, (IsLocal /\ ~Mounted) => e = Empty,
           Enter(page, e)
    PROVE  /\ at' = page /\ entry' \in Entries
           /\ (IsLocal /\ ~Mounted') => entry' = Empty
           /\ \A n : CaughtUp(e, query, Mounted, n) => CaughtUp(entry', query, Mounted', n)
<1> DEFINE d == IF Mounted THEN Unmount(e) ELSE e
<1>1. d = IF IsLocal THEN Empty ELSE e
  BY DEF Unmount
<1>2. d \in Entries
  BY <1>1, EntryEdits
<1>3. /\ at' = page /\ query' = query
      /\ Mounted' <=> query \in Pages[page].reads
  BY SameQuery DEF Enter, Mounted
<1>4. Mounted \in BOOLEAN
  BY DEF Mounted
<1>5. CASE query \in Pages[page].reads
  <2>1. entry' = Mount(d) /\ Mounted' = TRUE
    BY <1>3, <1>5 DEF Enter
  <2>2. \A n : CaughtUp(e, query, Mounted, n) => IsLocal \/ CaughtUp(d, query, Mounted, n)
    BY <1>1
  <2> HIDE DEF d
  <2> QED BY <1>2, <1>3, <1>4, <2>1, <2>2, MountCaughtUp
<1>6. CASE query \notin Pages[page].reads
  <2>1. entry' = d /\ Mounted' = FALSE
    BY <1>3, <1>6 DEF Enter
  <2> HIDE DEF d
  <2>2. \A n : CaughtUp(e, query, Mounted, n) => CaughtUp(d, query, FALSE, n)
    BY <1>1, <1>4, EmptyCaughtUp, HiddenCaughtUp
  <2> QED BY <1>1, <1>2, <1>3, <2>1, <2>2
<1> QED BY <1>5, <1>6

\* Loading again: a refetch for a query, one more load for the state of a shown component.
LEMMA LoadAgainCaughtUp ==
    ASSUME NEW e \in Entries
    PROVE  /\ LoadAgain(e) \in Entries
           /\ LoadAgain(e).data = e.data /\ LoadAgain(e).stale = e.stale
           /\ \A i \in DOMAIN LoadAgain(e).loads :
                \/ LoadAgain(e).loads[i] = Unread
                \/ i \in DOMAIN e.loads /\ LoadAgain(e).loads[i] = e.loads[i]
           /\ e.loads # <<>> => LoadAgain(e).loads # <<>>
           /\ IsLocal /\ Mounted => LoadAgain(e).loads # <<>>
           /\ IsLocal /\ ~Mounted => LoadAgain(e) = e
           /\ ~IsLocal => LoadAgain(e).loads # <<>>
           /\ ~IsLocal /\ e.data # None => LoadAgain(e).loads = <<Unread>>
<1> DEFINE f == [e EXCEPT !.loads = <<Unread>>]
           g == [e EXCEPT !.loads = Append(@, Unread)]
<1>1. f \in Entries /\ f.loads = <<Unread>> /\ f.data = e.data /\ f.stale = e.stale
  BY EntryEdits
<1>2. /\ g \in Entries /\ g.data = e.data /\ g.stale = e.stale
      /\ g.loads = Append(e.loads, Unread)
  BY DEF Entries
<1>3. e.loads \in Seq(Nat \union {Unread})
  BY DEF Entries
<1>4. /\ g.loads # <<>>
      /\ \A i \in DOMAIN g.loads : \/ g.loads[i] = Unread
                                   \/ i \in DOMAIN e.loads /\ g.loads[i] = e.loads[i]
  BY <1>2, <1>3
<1>5. f.loads # <<>> /\ \A i \in DOMAIN f.loads : f.loads[i] = Unread
  BY <1>1
<1> HIDE DEF f, g
<1>6. CASE IsLocal /\ Mounted
  <2>1. LoadAgain(e) = g
    BY <1>6 DEF LoadAgain, g
  <2> QED BY <1>2, <1>4, <1>6, <2>1
<1>7. CASE IsLocal /\ ~Mounted
  <2>1. LoadAgain(e) = e
    BY <1>7 DEF LoadAgain
  <2> QED BY <1>7, <2>1
<1>8. CASE ~IsLocal /\ e.loads # <<>> /\ e.data = None
  <2>1. LoadAgain(e) = e
    BY <1>8 DEF LoadAgain, Refetch
  <2> QED BY <1>8, <2>1
<1>9. CASE ~IsLocal /\ ~(e.loads # <<>> /\ e.data = None)
  <2>1. LoadAgain(e) = f
    BY <1>9 DEF LoadAgain, Refetch, f
  <2> QED BY <1>1, <1>5, <1>9, <2>1
<1> QED BY <1>6, <1>7, <1>8, <1>9

\* Invalidating the key of a query.
LEMMA InvalidateCaughtUp ==
    ASSUME NEW e \in Entries
    PROVE  /\ Invalidate(e) \in Entries /\ Invalidate(e).data = e.data
           /\ Mounted /\ query.mode # "manual" => Invalidate(e).loads # <<>>
           /\ Mounted /\ query.mode # "manual" /\ e.data # None => Invalidate(e).loads = <<Unread>>
           /\ ~Mounted => Invalidate(e).stale \/ e = Empty
<1> DEFINE s == [e EXCEPT !.stale = TRUE]
           f == [s EXCEPT !.loads = <<Unread>>]
<1>1. s \in Entries /\ s.loads = e.loads /\ s.data = e.data /\ s.stale
  BY EntryEdits
<1>2. f \in Entries /\ f.loads = <<Unread>> /\ f.data = e.data
  BY <1>1, EntryEdits
<1>3. f.loads # <<>>
  BY <1>2
<1>4. Refetch(s) = IF s.loads # <<>> /\ s.data = None THEN s ELSE f
  BY DEF Refetch
<1>5. Invalidate(e) = IF Mounted /\ query.mode # "manual" THEN Refetch(s)
                      ELSE IF e = Empty THEN e ELSE s
  BY DEF Invalidate
<1> HIDE DEF s, f
<1>6. CASE Mounted /\ query.mode # "manual" /\ e.loads # <<>> /\ e.data = None
  BY <1>1, <1>4, <1>5, <1>6
<1>7. CASE Mounted /\ query.mode # "manual" /\ ~(e.loads # <<>> /\ e.data = None)
  <2>1. Invalidate(e) = f
    BY <1>1, <1>4, <1>5, <1>7
  <2> QED BY <1>2, <1>3, <1>7, <2>1
<1>8. CASE ~(Mounted /\ query.mode # "manual")
  <2>1. Invalidate(e) = s \/ (e = Empty /\ Invalidate(e) = e)
    BY <1>5, <1>8
  <2> QED BY <1>1, <1>8, <2>1
<1> QED BY <1>6, <1>7, <1>8

\* What the handler of a succeeded command leaves behind: if somebody saw to the query, it
\* caught up with the command's write, unless a load that nothing could cancel was read before.
LEMMA UpdatedCaughtUp ==
    ASSUME EffectInv, NEW u, u = Updated(tour.command, entry)
    PROVE  /\ u \in Entries
           /\ (IsLocal /\ ~Mounted) => u = Empty
           /\ /\ SeesTo(tour.command, query)
              /\ \/ ~(IsLocal \/ ~Mounted \/ entry.data = None)
                 \/ \A i \in DOMAIN u.loads : u.loads[i] \notin 0..version - 1
              => CaughtUp(u, query, Mounted, version)
<1> DEFINE c == tour.command
           invalidated == IF Invalidates(c, query) THEN Invalidate(entry) ELSE entry
           loaded == IF query \in c.again THEN LoadAgain(invalidated) ELSE invalidated
           patched == query \in c.patch /\ Mounted /\ entry.data # None
<1>1. entry \in Entries /\ version \in Nat /\ entry.data \in Int
  BY DEF EffectInv, Entries
<1>2. Invalidates(c, query) => ~IsLocal
  BY DEF Invalidates, IsLocal
<1>3. invalidated \in Entries /\ invalidated.data = entry.data
  BY <1>1, InvalidateCaughtUp
<1>4. loaded \in Entries /\ loaded.data = entry.data
  BY <1>3, LoadAgainCaughtUp
<1>5. u = IF patched THEN [loaded EXCEPT !.data = version] ELSE loaded
  BY DEF Updated
<1>6. /\ u \in Entries /\ u.loads = loaded.loads /\ u.stale = loaded.stale
      /\ u.data = IF patched THEN version ELSE entry.data
  <2>1. CASE patched
    BY <1>1, <1>4, <1>5, <2>1 DEF Entries
  <2>2. CASE ~patched
    BY <1>4, <1>5, <2>2
  <2> QED BY <2>1, <2>2
<1>7. (IsLocal /\ ~Mounted) => u = Empty
  BY <1>1, <1>2, <1>5, LoadAgainCaughtUp DEF EffectInv
<1>8. ASSUME SeesTo(c, query),
             \A i \in DOMAIN u.loads : u.loads[i] = Unread \/ u.loads[i] >= version
      PROVE  CaughtUp(u, query, Mounted, version)
  <2>1. CASE patched
    <3>1. u.data >= version
      BY <1>1, <1>6, <2>1
    <3> QED BY <1>8, <3>1 DEF CaughtUp
  <2>2. CASE entry.data = None /\ ~patched
    BY <1>6, <1>8, <2>2 DEF CaughtUp
  <2>3. CASE query \in c.again
    <3>1. loaded.loads # <<>> \/ (IsLocal /\ ~Mounted)
      BY <1>3, <2>3, LoadAgainCaughtUp
    <3> QED BY <1>6, <1>7, <1>8, <3>1, EmptyCaughtUp DEF CaughtUp
  <2>4. CASE Invalidates(c, query) /\ query.mode # "manual" /\ query \notin c.again
    <3>1. loaded = Invalidate(entry)
      BY <2>4
    <3>2. \/ loaded.loads # <<>>
          \/ ~Mounted /\ (loaded.stale \/ entry.data = None)
      BY <1>1, <2>4, <3>1, InvalidateCaughtUp, EntryEdits
    <3>3. CASE loaded.loads # <<>>
      BY <1>6, <1>8, <3>3 DEF CaughtUp
    <3>4. CASE ~Mounted /\ loaded.stale
      BY <1>6, <1>8, <2>4, <3>4 DEF CaughtUp
    <3> QED BY <2>1, <2>2, <3>2, <3>3, <3>4
  <2>5. CASE query \in c.patch /\ IsLocal /\ ~patched
    <3>1. ~Mounted \/ entry.data = None
      BY <2>5
    <3> QED BY <1>7, <2>2, <2>5, <3>1, EmptyCaughtUp
  <2> QED BY <1>8, <2>1, <2>2, <2>3, <2>4, <2>5 DEF SeesTo, IsLocal
<1>9. ASSUME SeesTo(c, query), ~IsLocal, Mounted, entry.data # None
      PROVE  u.loads = <<Unread>>
  <2>1. CASE query \in c.again
    BY <1>3, <1>6, <1>9, <2>1, LoadAgainCaughtUp
  <2>2. CASE query \notin c.again
    <3>1. Invalidates(c, query) /\ query.mode # "manual"
      BY <1>9, <2>2 DEF SeesTo, IsLocal
    <3> QED BY <1>1, <1>6, <1>9, <2>2, <3>1, InvalidateCaughtUp
  <2> QED BY <2>1, <2>2
<1>10. ASSUME \A i \in DOMAIN u.loads : u.loads[i] \notin 0..version - 1
       PROVE  \A i \in DOMAIN u.loads : u.loads[i] = Unread \/ u.loads[i] >= version
  <2>1. \A i \in DOMAIN u.loads : u.loads[i] \in Nat \union {Unread}
    BY <1>6 DEF Entries
  <2>2. \A v \in Nat : v \notin 0..version - 1 => v >= version
    BY <1>1
  <2> QED BY <1>10, <2>1, <2>2
<1> HIDE DEF c
<1> QED BY <1>6, <1>7, <1>8, <1>9, <1>10, LoadingCaughtUp DEF c

\* A step that issues no answer and leaves the page alone.
LEMMA EffectFrame ==
    ASSUME EffectInv, tour' = tour, at' # "stay", version' \in Nat, version' >= version,
           acked' = acked, crossed' = crossed, entry' \in Entries,
           (IsLocal /\ ~Mounted') => entry' = Empty,
           CaughtUp(entry, query, Mounted, acked) => CaughtUp(entry', query, Mounted', acked)
    PROVE  EffectInv'
<1>1. query' = query /\ IsLocal' = IsLocal
  BY SameQuery
<1>2. SeesTo(tour.command, query)' <=> SeesTo(tour.command, query)
  BY <1>1 DEF SeesTo, Invalidates
<1>3. acked' \in 0..version'
  BY DEF EffectInv
<1> QED BY <1>1, <1>2, <1>3 DEF EffectInv

\* The user's steps, with the page shown and its dialogs.
LEMMA EffectUser ==
    ASSUME EffectInv, \/ \E page \in DOMAIN Pages : Go(page)
                      \/ Open \/ Close \/ Issue \/ Ask \/ Focus
    PROVE  EffectInv'
<1>0. /\ entry \in Entries
      /\ (IsLocal /\ ~Mounted) => entry = Empty
      /\ at # "stay" /\ version \in Nat /\ version >= version
      /\ Mounted \in BOOLEAN
  BY DEF EffectInv, Mounted
<1>1. ASSUME NEW page \in DOMAIN Pages, Go(page)
      PROVE  EffectInv'
  <2>1. tour' = tour /\ Enter(page, entry) /\ page # "stay"
    BY <1>1 DEF Go, Places
  <2>2. /\ at' = page /\ entry' \in Entries
        /\ (IsLocal /\ ~Mounted') => entry' = Empty
        /\ CaughtUp(entry, query, Mounted, acked) => CaughtUp(entry', query, Mounted', acked)
    BY <1>0, <2>1, EnterCaughtUp
  <2>3. UNCHANGED <<version, acked, crossed>>
    BY <1>1 DEF Go, server
  <2> QED BY <1>0, <2>1, <2>2, <2>3, EffectFrame
<1>2. CASE Open
  <2>1. UNCHANGED <<tour, at, version, acked, crossed>> /\ query' = query
    BY <1>2, SameQuery DEF Open, server
  <2>2. Mounted' = TRUE
    BY <1>2, <2>1 DEF Open, Mounted
  <2>3. entry' = IF IsLocal /\ Mounted THEN entry ELSE Mount(entry)
    BY <1>2 DEF Open
  <2>4. CASE IsLocal /\ Mounted
    BY <1>0, <2>1, <2>2, <2>3, <2>4, EffectFrame
  <2>5. CASE ~(IsLocal /\ Mounted)
    <3>1. entry' = Mount(entry)
      BY <2>3, <2>5
    <3>2. entry' \in Entries
      BY <1>0, <3>1, MountCaughtUp
    <3>3. CaughtUp(entry, query, Mounted, acked) => CaughtUp(entry', query, TRUE, acked)
      BY <1>0, <3>1, MountCaughtUp
    <3> QED BY <1>0, <2>1, <2>2, <3>2, <3>3, EffectFrame
  <2> QED BY <2>4, <2>5
<1>3. CASE Close
  <2>1. UNCHANGED <<tour, at, version, acked, crossed>> /\ query' = query
    BY <1>3, SameQuery DEF Close, server
  <2>2. Mounted' <=> query \in Pages[at].reads
    BY <1>3, <2>1 DEF Close, Mounted
  <2>3. entry' = IF query \in Pages[at].reads THEN entry ELSE Unmount(entry)
    BY <1>3 DEF Close
  <2>4. CASE query \in Pages[at].reads
    <3>1. entry' = entry /\ Mounted' = TRUE /\ Mounted = TRUE
      BY <2>2, <2>3, <2>4 DEF Mounted
    <3> QED BY <1>0, <2>1, <3>1, EffectFrame
  <2>5. CASE query \notin Pages[at].reads
    <3>1. entry' = (IF IsLocal THEN Empty ELSE entry) /\ Mounted' = FALSE
      BY <2>2, <2>3, <2>5 DEF Unmount
    <3>2. entry' \in Entries
      BY <1>0, <3>1, EntryEdits
    <3>3. CaughtUp(entry, query, Mounted, acked) => CaughtUp(entry', query, FALSE, acked)
      BY <1>0, <3>1, EmptyCaughtUp, HiddenCaughtUp
    <3> QED BY <1>0, <2>1, <3>1, <3>2, <3>3, EffectFrame
  <2> QED BY <2>4, <2>5
<1>4. CASE Issue
  <2>1. UNCHANGED <<tour, at, open, entry, version, acked, crossed>> /\ query' = query
    BY <1>4, SameQuery DEF Issue, server
  <2>2. Mounted' = Mounted
    BY <2>1 DEF Mounted
  <2> QED BY <1>0, <2>1, <2>2, EffectFrame
<1>5. CASE Ask \/ Focus
  <2>1. UNCHANGED <<tour, at, open, version, acked, crossed>> /\ query' = query /\ Mounted
    BY <1>5, SameQuery DEF Ask, Focus, server
  <2>2. Mounted' = TRUE /\ Mounted = TRUE
    BY <2>1 DEF Mounted
  <2>3. /\ entry' \in Entries
        /\ CaughtUp(entry, query, Mounted, acked) => CaughtUp(entry', query, TRUE, acked)
    <3>1. CASE Ask
      <4>1. entry' = LoadAgain(entry)
        BY <3>1 DEF Ask
      <4>2. entry' \in Entries /\ entry'.loads # <<>>
        BY <1>0, <2>1, <4>1, LoadAgainCaughtUp
      <4>3. \A i \in DOMAIN entry'.loads :
               \/ entry'.loads[i] = Unread
               \/ i \in DOMAIN entry.loads /\ entry'.loads[i] = entry.loads[i]
        BY <1>0, <4>1, LoadAgainCaughtUp
      <4> QED BY <4>2, <4>3 DEF CaughtUp
    <3>2. CASE Focus
      <4>1. entry' = [entry EXCEPT !.loads = <<Unread>>]
        BY <3>2 DEF Focus
      <4>2. entry' \in Entries /\ entry'.loads = <<Unread>>
        BY <1>0, <4>1, EntryEdits
      <4> QED BY <4>2, LoadingCaughtUp
    <3> QED BY <1>5, <3>1, <3>2
  <2> QED BY <1>0, <2>1, <2>2, <2>3, EffectFrame
<1> QED BY <1>1, <1>2, <1>3, <1>4, <1>5

\* The steps of the server, the network and the clock, but for the answer to the command.
LEMMA EffectRest ==
    ASSUME EffectInv, \/ Write \/ WriteLater \/ Fail
                      \/ \E i \in DOMAIN entry.loads : Read(i) \/ Receive(i) \/ LoadFails(i)
                      \/ Poll \/ Age \/ Gc
    PROVE  EffectInv'
<1>0. /\ entry \in Entries
      /\ (IsLocal /\ ~Mounted) => entry = Empty
      /\ at # "stay" /\ version \in Nat /\ acked \in 0..version
  BY DEF EffectInv
<1>1. UNCHANGED <<tour, at, open, acked, crossed>>
  <2>1. CASE Write \/ WriteLater \/ Fail \/ Poll \/ Age \/ Gc
    BY <2>1 DEF Write, WriteLater, Fail, Poll, Age, Gc
  <2>2. CASE \E i \in DOMAIN entry.loads : Read(i) \/ Receive(i) \/ LoadFails(i)
    BY <2>2 DEF Read, Receive, LoadFails
  <2> QED BY <2>1, <2>2
<1>2. query' = query /\ Mounted' = Mounted
  BY <1>1, SameQuery DEF Mounted
<1>3. ASSUME entry' \in Entries, version' = version, (IsLocal /\ ~Mounted) => entry' = Empty,
             CaughtUp(entry, query, Mounted, acked) => CaughtUp(entry', query, Mounted, acked)
      PROVE  EffectInv'
  BY <1>0, <1>1, <1>2, <1>3, EffectFrame
<1>4. CASE Write \/ WriteLater \/ Fail
  <2>1. entry' = entry /\ version' \in {version, version + 1}
    BY <1>4 DEF Write, WriteLater, Fail, server
  <2>2. version' \in Nat /\ version' >= version
    BY <1>0, <2>1
  <2> QED BY <1>0, <1>1, <1>2, <2>1, <2>2, EffectFrame
<1>5. ASSUME NEW i \in DOMAIN entry.loads, Read(i) \/ Receive(i) \/ LoadFails(i)
      PROVE  EffectInv'
  <2>1. version' = version
    BY <1>5 DEF Read, Receive, LoadFails, server
  <2>2. ~IsLocal \/ Mounted
    BY <1>0, <1>5 DEF Empty
  <2>3. /\ entry.loads \in Seq(Nat \union {Unread}) /\ entry.loads[i] \in Nat \union {Unread}
        /\ entry.data \in Int /\ None \in Int
    BY <1>0, <1>5 DEF Entries, None
  <2>4. /\ Without(entry.loads, i) \in Seq(Nat \union {Unread})
        /\ \A k \in DOMAIN Without(entry.loads, i) :
              \E j \in DOMAIN entry.loads : Without(entry.loads, i)[k] = entry.loads[j]
    BY <1>5, <2>3, WithoutLoads
  <2>5. CASE Read(i)
    <3>1. entry' = [entry EXCEPT !.loads[i] = version]
      BY <2>5 DEF Read
    <3>2. entry' = [entry EXCEPT !.loads = [entry.loads EXCEPT ![i] = version]]
      BY <3>1
    <3>3. [entry.loads EXCEPT ![i] = version] \in Seq(Nat \union {Unread})
      BY <1>0, <1>5, <2>3
    <3>4. /\ entry' \in Entries /\ entry'.loads = [entry.loads EXCEPT ![i] = version]
          /\ entry'.data = entry.data /\ entry'.stale = entry.stale
      BY <1>0, <3>2, <3>3 DEF Entries
    <3>5. /\ entry'.loads # <<>>
          /\ \A k \in DOMAIN entry'.loads :
                k \in DOMAIN entry.loads /\ entry'.loads[k] \in {entry.loads[k], version}
      BY <1>5, <2>3, <3>4
    <3>6. CaughtUp(entry, query, Mounted, acked) => CaughtUp(entry', query, Mounted, acked)
      BY <1>0, <3>5 DEF CaughtUp
    <3> QED BY <1>3, <2>1, <2>2, <3>4, <3>6
  <2>6. CASE Receive(i)
    <3>1. /\ entry' = [data |-> entry.loads[i], loads |-> Without(entry.loads, i),
                       stale |-> FALSE, failed |-> FALSE]
          /\ entry.loads[i] # Unread
      BY <2>6 DEF Receive
    <3>2. entry' \in Entries
      BY <2>3, <2>4, <3>1 DEF Entries
    <3>3. CaughtUp(entry, query, Mounted, acked) => CaughtUp(entry', query, Mounted, acked)
      BY <1>5, <2>4, <3>1 DEF CaughtUp
    <3> QED BY <1>3, <2>1, <2>2, <3>2, <3>3
  <2>7. CASE LoadFails(i)
    <3>1. PICK data \in {None, entry.data} :
             entry' = [data |-> data, loads |-> Without(entry.loads, i),
                       stale |-> TRUE, failed |-> TRUE]
      BY <2>7 DEF LoadFails
    <3>2. entry' \in Entries
      BY <2>3, <2>4, <3>1 DEF Entries
    <3>3. CaughtUp(entry, query, Mounted, acked) => CaughtUp(entry', query, Mounted, acked)
      BY <2>4, <3>1 DEF CaughtUp
    <3> QED BY <1>3, <2>1, <2>2, <3>2, <3>3
  <2> QED BY <1>5, <2>5, <2>6, <2>7
<1>6. CASE Poll
  <2>1. version' = version /\ entry' = [entry EXCEPT !.loads = <<Unread>>] /\ Mounted
    BY <1>6 DEF Poll, server
  <2>2. entry' \in Entries /\ entry'.loads = <<Unread>>
    BY <1>0, <2>1, EntryEdits
  <2> QED BY <1>3, <2>1, <2>2, LoadingCaughtUp
<1>7. CASE Age
  <2>1. version' = version /\ entry' = [entry EXCEPT !.stale = TRUE] /\ ~IsLocal
    BY <1>7 DEF Age, server
  <2>2. /\ entry' \in Entries /\ entry'.loads = entry.loads /\ entry'.data = entry.data
        /\ entry'.stale = TRUE /\ entry'.failed = entry.failed
    BY <1>0, <2>1, EntryEdits
  <2>3. CaughtUp(entry, query, Mounted, acked) => CaughtUp(entry', query, Mounted, acked)
    BY <2>2 DEF CaughtUp
  <2> QED BY <1>3, <2>1, <2>2, <2>3
<1>8. CASE Gc
  <2>1. version' = version /\ entry' = Empty /\ ~IsLocal
    BY <1>8 DEF Gc, server
  <2> QED BY <1>0, <1>3, <2>1, EntryEdits, EmptyCaughtUp
<1> QED BY <1>4, <1>5, <1>6, <1>7, <1>8

\* The answer to the command: what the hook and the handler do, and where they go.
LEMMA EffectAnswer ==
    ASSUME EffectInv, Answer
    PROVE  EffectInv'
<1> DEFINE u == Updated(tour.command, entry)
<1>1. /\ UNCHANGED <<tour, version>> /\ acked' = version
      /\ crossed' = /\ IsLocal \/ ~Mounted \/ entry.data = None
                    /\ \E i \in DOMAIN u.loads : u.loads[i] \in 0..version - 1
  BY DEF Answer, server
<1>2. /\ u \in Entries
      /\ (IsLocal /\ ~Mounted) => u = Empty
      /\ SeesTo(tour.command, query) /\ ~crossed' => CaughtUp(u, query, Mounted, version)
  <2>1. PICK v : v = u
    OBVIOUS
  <2>2. /\ v \in Entries
        /\ (IsLocal /\ ~Mounted) => v = Empty
        /\ /\ SeesTo(tour.command, query)
           /\ \/ ~(IsLocal \/ ~Mounted \/ entry.data = None)
              \/ \A i \in DOMAIN v.loads : v.loads[i] \notin 0..version - 1
           => CaughtUp(v, query, Mounted, version)
    BY <2>1, UpdatedCaughtUp
  <2> HIDE DEF u
  <2> QED BY <1>1, <2>1, <2>2
<1>3. /\ at' # "stay" /\ entry' \in Entries
      /\ (IsLocal /\ ~Mounted') => entry' = Empty
      /\ CaughtUp(u, query, Mounted, version) => CaughtUp(entry', query, Mounted', version)
  <2>1. CASE tour.command.then \in {"stay", at}
    <3>1. entry' = u /\ UNCHANGED <<at, open>>
      BY <2>1 DEF Answer
    <3>2. Mounted' = Mounted /\ at' # "stay"
      BY <1>1, <3>1, SameQuery DEF Mounted, EffectInv
    <3> HIDE DEF u
    <3> QED BY <1>2, <3>1, <3>2
  <2>2. CASE tour.command.then \notin {"stay", at}
    <3>1. Enter(tour.command.then, u) /\ tour.command.then # "stay"
      BY <2>2 DEF Answer
    <3> HIDE DEF u
    <3> QED BY <1>1, <1>2, <3>1, EnterCaughtUp
  <2> QED BY <2>1, <2>2
<1>4. query' = query /\ IsLocal' = IsLocal
  BY <1>1, SameQuery
<1>5. SeesTo(tour.command, query)' <=> SeesTo(tour.command, query)
  BY <1>1, <1>4 DEF SeesTo, Invalidates
<1>6. tour' \in Tours /\ version' \in Nat /\ acked' \in 0..version'
  BY <1>1 DEF EffectInv
<1> HIDE DEF u
<1> QED BY <1>1, <1>2, <1>3, <1>4, <1>5, <1>6 DEF EffectInv

\* Initially nothing is loaded and no command has succeeded.
LEMMA EffectInit ==
    ASSUME Init
    PROVE  EffectInv
<1>1. Empty \in Entries
  <2>1. [data |-> 0, loads |-> <<>>, stale |-> FALSE, failed |-> FALSE] \in Entries
    BY DEF Entries
  <2> QED BY <2>1, EntryEdits
<1> QED BY <1>1, EmptyCaughtUp DEF Init, EffectInv

\* Every step keeps the invariant.
LEMMA EffectStep ==
    ASSUME EffectInv, [Next]_vars
    PROVE  EffectInv'
<1>1. CASE UNCHANGED vars
  <2>1. UNCHANGED <<tour, at, open, entry, version, acked, crossed>>
    BY <1>1 DEF vars, server
  <2>2. Mounted' = Mounted
    BY <2>1, SameQuery DEF Mounted
  <2>3. version \in Nat => version >= version
    OBVIOUS
  <2> QED BY <2>1, <2>2, <2>3, EffectFrame DEF EffectInv
<1> QED BY <1>1, EffectUser, EffectRest, EffectAnswer DEF Next

\* What is shown, and shown where the rule applies, is shown of a query somebody saw to.
LEMMA EffectImplies ==
    ASSUME Covering, EffectInv
    PROVE  ShowsItsEffect
<1> SUFFICES ASSUME Mounted, Idle, entry.data # None, ~entry.failed, ~crossed,
                    at \in {tour.page, tour.command.then} \/ Invalidates(tour.command, query),
                    Written(tour.command, query),
                    <<tour.command.m, query>> \notin KnownGaps
             PROVE  entry.data >= acked
  BY DEF ShowsItsEffect
<1>1. Covers(tour) /\ at # "stay"
  BY DEF EffectInv, Covering
<1>2. Shows(at, query)
  BY DEF Mounted, Shows
<1>3. SeesTo(tour.command, query)
  <2>1. \/ Invalidates(tour.command, query)
        \/ \E p \in {tour.page, tour.command.then} \ {"stay"} : Shows(p, query)
    BY <1>1, <1>2
  <2> QED BY <1>1, <2>1 DEF Covers, query
<1>4. CaughtUp(entry, query, Mounted, acked)
  BY <1>3 DEF EffectInv
<1> QED BY <1>4 DEF CaughtUp, Idle

\* On pages that obey the rule, what is shown after a command is at least as new as its write,
\* however often it is issued and in whatever order loads are asked for, read, answered and lost.
THEOREM ShowsItsEffectHolds ==
    ASSUME Covering
    PROVE  Spec => []ShowsItsEffect
<1>1. EffectInv /\ [Next]_vars => EffectInv'
  BY EffectStep
<1>2. EffectInv => ShowsItsEffect
  BY EffectImplies
<1> QED BY <1>1, <1>2, EffectInit, PTL DEF Spec
=============================================================================
