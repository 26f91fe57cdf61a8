------------------------------ MODULE Browser ------------------------------
(***************************************************************************)
(* One browser tab: React Query's cache under the pages of module Pages, the *)
(* server behind it and a user who opens pages and issues commands. The      *)
(* initial state picks a tour: a page, one of its commands, one query that   *)
(* reads what the command writes, and another page to wander off to. The     *)
(* state follows that query alone, so the tours are checked side by side.    *)
(*                                                                           *)
(* A load of the query is a request that the server reads at some version    *)
(* and answers later; a version counts the writes to the tables behind the   *)
(* query. The defaults are those of components/providers.tsx: data are fresh *)
(* for five minutes (Age ends it), dropped ten minutes after their last use  *)
(* (Gc), and refetched when the window regains the focus if stale.           *)
(***************************************************************************)
EXTENDS Pages, Integers, Sequences

CONSTANTS
    KnownGaps,  \* pairs of a mutation and a query that its page leaves stale
    MaxIssues,  \* a bound on how often the command is issued
    MaxLoads    \* a bound on the overlapping loads that a component's user asks for

ASSUME BoundsAssumption == MaxIssues \in Nat /\ MaxLoads \in Nat

\* Handlers patch the state of their own component, never the query cache (setQueryData).
ASSUME PatchAssumption ==
    \A p \in DOMAIN Pages : \A c \in Pages[p].does : \A q \in c.patch : q.mode = "local"

VARIABLES
    tour,     \* the page, the command, the query and the other page
    at,       \* the page shown
    open,     \* whether the dialogs that show the query are open
    entry,    \* the query's cache entry, or its component's state
    command,  \* "ready", "sent", "written", "done" or "failed"
    issued,   \* how often it was issued
    version,  \* the writes so far to the tables behind the query
    acked,    \* the version when the command last succeeded
    owed,     \* a write that a worker still has to do for the command
    crossed   \* an answer read before the write was let through after it

server == <<version, owed>>
vars == <<tour, at, open, entry, command, issued, server, acked, crossed>>

None == -1      \* no data yet
Unread == -1    \* a request the server has not answered yet

Written(c, q) == q.reads \intersect c.m.writes # {}
Later(c, q) == q.reads \intersect c.m.later # {}

Shows(page, q) == q \in Pages[page].reads \union Pages[page].opens

Places(t) == ({t.page, t.other} \union {t.command.then}) \ {"stay"}

\* The other page shows the query too, or nothing at all.
ToursOf(page, c, q) ==
    {[page |-> page, command |-> c, query |-> q, other |-> other] :
        other \in {"admin"} \union {p \in DOMAIN Pages \ {page} : Shows(p, q)}}

Tours ==
    LET shown == UNION {Pages[p].reads \union Pages[p].opens : p \in DOMAIN Pages}
        changed(c) == {q \in shown : Written(c, q) \/ Later(c, q)}
        tours(page, c) == UNION {ToursOf(page, c, q) : q \in changed(c)}
    IN  {t \in UNION {UNION {tours(p, c) : c \in Pages[p].does} : p \in DOMAIN Pages} :
            \E p \in Places(t) : Shows(p, t.query)}

Empty == [data |-> None, loads |-> <<>>, stale |-> FALSE, failed |-> FALSE]

Init ==
    /\ tour \in Tours
    /\ at = "admin"
    /\ open = FALSE
    /\ entry = Empty
    /\ command = "ready"
    /\ issued = 0
    /\ version = 0
    /\ acked = 0
    /\ owed = FALSE
    /\ crossed = FALSE
----------------------------------------------------------------------------
(* React Query and the components' own state *)

query == tour.query

IsLocal == query.mode = "local"

Mounted == query \in Pages[at].reads \/ (open /\ query \in Pages[at].opens)

Idle == entry.loads = <<>>

\* QueryObserver.onSubscribe and a local component's effect: load what is missing or stale.
Mount(e) ==
    CASE IsLocal -> [Empty EXCEPT !.loads = <<Unread>>]
      [] query.mode = "manual" -> e
      [] OTHER -> IF e.loads = <<>> /\ (e.data = None \/ e.stale)
                  THEN [e EXCEPT !.loads = <<Unread>>] ELSE e

\* A component takes its state along when it goes.
Unmount(e) == IF IsLocal THEN Empty ELSE e

\* Mutants: the load in flight is not cancelled, but kept or answered beside the new one.
RefetchReusing(e) == IF e.loads # <<>> THEN e ELSE [e EXCEPT !.loads = <<Unread>>]
RefetchBeside(e) ==
    IF Len(e.loads) >= 2 THEN e ELSE [e EXCEPT !.loads = Append(@, Unread)]

\* Query.fetch with cancelRefetch: a load in flight is cancelled, but the first one is kept.
Refetch(e) ==
    IF e.loads # <<>> /\ e.data = None THEN e ELSE [e EXCEPT !.loads = <<Unread>>]

\* invalidateQueries: mark the entry, refetch it if it is shown and loads by itself.
Invalidate(e) ==
    IF Mounted /\ query.mode # "manual"
    THEN Refetch([e EXCEPT !.stale = TRUE])
    ELSE IF e = Empty THEN e ELSE [e EXCEPT !.stale = TRUE]

Invalidates(c, q) ==
    /\ q.mode # "local"
    /\ \E key \in c.m.invalidates : Len(key) <= Len(q.key) /\ key = SubSeq(q.key, 1, Len(key))

\* The handler loads again: refetch() of a query, or a second load beside the first.
LoadAgain(e) ==
    IF ~IsLocal THEN Refetch(e)
    ELSE IF Mounted THEN [e EXCEPT !.loads = Append(@, Unread)] ELSE e

Without(s, i) == SubSeq(s, 1, i - 1) \o SubSeq(s, i + 1, Len(s))
----------------------------------------------------------------------------
(* The user *)

\* Entering a page from another one.
Enter(page, e) ==
    /\ at' = page
    /\ open' = FALSE
    /\ entry' = IF query \in Pages[page].reads
                THEN Mount(IF Mounted THEN Unmount(e) ELSE e)
                ELSE IF Mounted THEN Unmount(e) ELSE e

Go(page) ==
    /\ page \in Places(tour) \ {at}
    /\ Enter(page, entry)
    /\ UNCHANGED <<tour, command, issued, server, acked, crossed>>

Open ==
    /\ query \in Pages[at].opens /\ ~open
    /\ open' = TRUE
    /\ entry' = IF IsLocal /\ Mounted THEN entry ELSE Mount(entry)
    /\ UNCHANGED <<tour, at, command, issued, server, acked, crossed>>

Close ==
    /\ open
    /\ open' = FALSE
    /\ entry' = IF query \in Pages[at].reads THEN entry ELSE Unmount(entry)
    /\ UNCHANGED <<tour, at, command, issued, server, acked, crossed>>

\* A button is there once the rows or the loading state it depends on are.
Issue ==
    /\ command \in {"ready", "failed", "done"} /\ at = tour.page
    /\ query \in tour.command.needs => entry.data # None
    /\ issued < MaxIssues
    /\ issued' = issued + 1
    /\ command' = "sent"
    /\ UNCHANGED <<tour, at, open, entry, server, acked, crossed>>

\* A refresh button, a timer or an event of the page asks for the query.
Ask ==
    /\ Mounted /\ query \in Pages[at].asks
    /\ IsLocal => Len(entry.loads) < MaxLoads
    /\ entry' = LoadAgain(entry)
    /\ UNCHANGED <<tour, at, open, command, issued, server, acked, crossed>>

\* The window regains the focus.
Focus ==
    /\ Mounted /\ Idle /\ query.mode \in {"auto", "poll"}
    /\ entry.data = None \/ entry.stale
    /\ entry' = [entry EXCEPT !.loads = <<Unread>>]
    /\ UNCHANGED <<tour, at, open, command, issued, server, acked, crossed>>
----------------------------------------------------------------------------
(* The server and the network *)

Write ==
    /\ command = "sent"
    /\ command' = "written"
    /\ version' = IF Written(tour.command, query) THEN version + 1 ELSE version
    /\ owed' = (owed \/ Later(tour.command, query))
    /\ UNCHANGED <<tour, at, open, entry, issued, acked, crossed>>

WriteLater ==
    /\ owed
    /\ owed' = FALSE
    /\ version' = version + 1
    /\ UNCHANGED <<tour, at, open, entry, command, issued, acked, crossed>>

\* The command is refused, or its answer is lost after the write.
Fail ==
    /\ command \in {"sent", "written"}
    /\ command' = "failed"
    /\ UNCHANGED <<tour, at, open, entry, issued, server, acked, crossed>>

Updated(c, e) ==
    LET invalidated == IF Invalidates(c, query) THEN Invalidate(e) ELSE e
        loaded == IF query \in c.again THEN LoadAgain(invalidated) ELSE invalidated
    IN  IF query \in c.patch /\ Mounted /\ e.data # None
        THEN [loaded EXCEPT !.data = version] ELSE loaded

\* onSuccess of the hook, then the rest of the handler, even if the user has left the page.
Answer ==
    LET updated == Updated(tour.command, entry)
    IN  /\ command = "written"
        /\ command' = "done"
        /\ IF tour.command.then \in {"stay", at}
           THEN entry' = updated /\ UNCHANGED <<at, open>>
           ELSE Enter(tour.command.then, updated)
        /\ crossed' = /\ IsLocal \/ ~Mounted \/ entry.data = None
                      /\ \E i \in DOMAIN updated.loads : updated.loads[i] \in 0..version - 1
        /\ acked' = version
        /\ UNCHANGED <<tour, issued, server>>

Read(i) ==
    /\ entry.loads[i] = Unread
    /\ entry' = [entry EXCEPT !.loads[i] = version]
    /\ UNCHANGED <<tour, at, open, command, issued, server, acked, crossed>>

Receive(i) ==
    /\ entry.loads[i] # Unread
    /\ entry' = [data |-> entry.loads[i], loads |-> Without(entry.loads, i),
                 stale |-> FALSE, failed |-> FALSE]
    /\ UNCHANGED <<tour, at, open, command, issued, server, acked, crossed>>

\* Both attempts fail. A component may take the error for an empty answer.
LoadFails(i) ==
    /\ \E data \in IF IsLocal THEN {None, entry.data} ELSE {entry.data} :
          entry' = [data |-> data, loads |-> Without(entry.loads, i),
                    stale |-> TRUE, failed |-> TRUE]
    /\ UNCHANGED <<tour, at, open, command, issued, server, acked, crossed>>
----------------------------------------------------------------------------
(* The clock *)

\* Mutant: the interval leaves fresh data alone.
PollStale ==
    /\ Mounted /\ Idle /\ query.mode = "poll" /\ entry.stale
    /\ entry' = [entry EXCEPT !.loads = <<Unread>>]
    /\ UNCHANGED <<tour, at, open, command, issued, server, acked, crossed>>

Poll ==
    /\ Mounted /\ Idle /\ query.mode = "poll"
    /\ entry' = [entry EXCEPT !.loads = <<Unread>>]
    /\ UNCHANGED <<tour, at, open, command, issued, server, acked, crossed>>

Age ==
    /\ ~IsLocal /\ entry.data # None /\ ~entry.stale
    /\ entry' = [entry EXCEPT !.stale = TRUE]
    /\ UNCHANGED <<tour, at, open, command, issued, server, acked, crossed>>

Gc ==
    /\ ~IsLocal /\ ~Mounted /\ Idle /\ entry # Empty
    /\ entry' = Empty
    /\ UNCHANGED <<tour, at, open, command, issued, server, acked, crossed>>
----------------------------------------------------------------------------
Next ==
    \/ \E page \in DOMAIN Pages : Go(page)
    \/ Open \/ Close \/ Issue \/ Ask \/ Focus
    \/ Write \/ WriteLater \/ Fail \/ Answer
    \/ \E i \in DOMAIN entry.loads : Read(i) \/ Receive(i) \/ LoadFails(i)
    \/ Poll \/ Age \/ Gc

\* The network delivers what it does not lose, and timers fire.
Fairness ==
    /\ WF_vars(\E i \in DOMAIN entry.loads : Read(i))
    /\ WF_vars(\E i \in DOMAIN entry.loads : Receive(i))
    /\ WF_vars(Poll)

Spec == Init /\ [][Next]_vars /\ Fairness
----------------------------------------------------------------------------
\* The values that the variables take: what a reader needs to read the actions.
TypeOK ==
    /\ tour \in Tours
    /\ at \in Places(tour) \union {"admin"}
    /\ open \in BOOLEAN
    /\ entry.data \in None..version
    /\ \A i \in DOMAIN entry.loads : entry.loads[i] \in Unread..version
    /\ Len(entry.loads) <= IF IsLocal THEN MaxLoads + MaxIssues ELSE 1
    /\ command \in {"ready", "sent", "written", "done", "failed"}
    /\ version \in 0..2 * MaxIssues /\ acked \in 0..version

\* Once a command has succeeded, what the page that issued it or the page it goes to shows is
\* at least as new as the command's own write, and so is what any page shows under a key that
\* the hook invalidates: unless the last load failed, unless a load that nothing could cancel
\* had been read before the write, and apart from the known gaps.
ShowsItsEffect ==
    /\ Mounted /\ Idle /\ entry.data # None /\ ~entry.failed /\ ~crossed
    /\ at \in {tour.page, tour.command.then} \/ Invalidates(tour.command, query)
    /\ Written(tour.command, query)
    /\ <<tour.command.m, query>> \notin KnownGaps
    => entry.data >= acked

\* What a query shows never goes back to an older version while it is cached.
NotOlder == IsLocal \/ entry'.data = None \/ entry'.data >= entry.data

NeverOlder == [][NotOlder]_vars

\* A polled query that stays on the screen catches up with every write, a worker's too.
PollCatchesUp ==
    (query.mode = "poll" /\ Mounted /\ entry.data < version)
        ~> (entry.data = version \/ ~Mounted \/ entry.failed)
============================================================================
