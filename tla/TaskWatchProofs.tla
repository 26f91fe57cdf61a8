-------------------------- MODULE TaskWatchProofs --------------------------
(***************************************************************************)
(* Theorems about TaskWatch for any number of clicks, visits and events: the *)
(* type invariant, and that a page goes on being busy while its job runs.    *)
(* The latter needs to know what may be on its way to a page whose job runs: *)
(* nothing that announces an end, and no status other than the one shown or  *)
(* "scanning" (Calm).                                                        *)
(***************************************************************************)
EXTENDS TaskWatch, TLAPS

Kinds == Ends \union {"progress"}
Events == (0..MaxClicks) \X Kinds

\* What each page uses, and which jobs there are.
Parts ==
    /\ page # "classification" => closing = 0
    /\ page # "source" => load = "none"
    /\ inbox \in Seq(Events)
    /\ running \subseteq 0..clicks
    /\ busy => clicks > 0
    /\ request = "sent" => clicks > 0 /\ clicks \notin running

\* While the page's job is about to run or runs, and since the click no other job has ended and
\* no update has changed the status, nothing is on its way to the page that makes it free again.
Calm ==
    clicks > 0 /\ (request = "sent" \/ clicks \in running) /\ ~foreign /\ ~overwritten =>
        /\ closing = 0
        /\ page = "rot" => inbox = <<>>
        /\ page = "classification" => \A i \in DOMAIN inbox : inbox[i][2] = "progress"
        /\ page = "source" => /\ status \in {shown, "scanning"}
                              /\ load \in {"none", "unread", shown, "scanning"}
                              /\ load = "scanning" => status = "scanning"

-----------------------------------------------------------------------------
\* Every step keeps the types.
LEMMA TypesStep ==
    ASSUME TypeOK, Parts, [Next]_vars
    PROVE  TypeOK'
<1> DEFINE Goal == TypeOK'
<1> USE BoundsAssumption DEF TypeOK, Parts, Statuses, Ends, job, client, history, CloseStream
<1>1. CASE UNCHANGED vars
  BY <1>1 DEF vars
<1>2. CASE Click
  BY <1>2 DEF Click
<1>3. CASE Accept
  BY <1>3 DEF Accept
<1>4. CASE Refuse
  BY <1>4 DEF Refuse
<1>5. CASE Answer
  BY <1>5 DEF Answer
<1>6. CASE AnswerFails
  <2>1. CASE page = "source"
    BY <1>6, <2>1 DEF AnswerFails
  <2>2. CASE page # "source"
    <3>1. busy' <=> busy
      BY <1>6, <2>2, Zenon DEF AnswerFails
    <3>2. UNCHANGED <<page, clicks, visits, closing, shown, load, stream, card, status, copy, running>>
          /\ request' = "none"
      BY <1>6 DEF AnswerFails
    <3> QED BY <3>1, <3>2
  <2> QED BY <2>1, <2>2
<1>7. CASE OtherStarts
  BY <1>7 DEF OtherStarts
<1>8. CASE Refetch
  BY <1>8 DEF Refetch
<1>9. CASE Read
  BY <1>9 DEF Read
<1>10. CASE Receive
  BY <1>10 DEF Receive
<1>11. CASE LoadFails
  BY <1>11 DEF LoadFails
<1>12. CASE Connect
  BY <1>12 DEF Connect
<1>13. CASE Drop
  BY <1>13 DEF Drop
<1>14. CASE ROTCompleted
  BY <1>14 DEF ROTCompleted
<1>15. CASE Completed
  BY <1>15 DEF Completed
<1>16. CASE Failed
  BY <1>16 DEF Failed
<1>17. CASE Progressed
  BY <1>17 DEF Progressed
<1>18. CASE Finish
  BY <1>18 DEF Finish
<1>19. CASE Timeout
  BY <1>19 DEF Timeout
<1>20. CASE Revisit
  BY <1>20 DEF Revisit
<1>21. ASSUME NEW j \in running, Progress(j) PROVE Goal
  BY <1>21 DEF Progress, Send
<1>22. ASSUME NEW j \in running, NEW end \in Ends, End(j, end) PROVE Goal
  BY <1>22 DEF End, Send
<1>23. CASE UpdateReads
  BY <1>23 DEF UpdateReads
<1>24. CASE UpdateWrites
  BY <1>24 DEF UpdateWrites
<1>25. CASE UpdateFails
  BY <1>25 DEF UpdateFails
<1> QED
  BY <1>1, <1>2, <1>3, <1>4, <1>5, <1>6, <1>7, <1>8, <1>9, <1>10, <1>11,
     <1>12, <1>13, <1>14, <1>15, <1>16, <1>17, <1>18, <1>19, <1>20, <1>21, <1>22,
     <1>23, <1>24, <1>25 DEF Next

\* Every step keeps the parts apart.
LEMMA PartsStep ==
    ASSUME TypeOK, Parts, [Next]_vars
    PROVE  Parts'
<1> DEFINE Goal == Parts'
<1> USE BoundsAssumption DEF TypeOK, Parts, Events, Kinds,
        job, client, history, CloseStream
<1>1. CASE UNCHANGED vars
  BY <1>1 DEF vars
<1>2. CASE Click
  BY <1>2 DEF Click
<1>3. CASE Accept
  BY <1>3 DEF Accept
<1>4. CASE Refuse
  BY <1>4 DEF Refuse
<1>5. CASE Answer
  BY <1>5 DEF Answer
<1>6. CASE AnswerFails
  BY <1>6 DEF AnswerFails
<1>7. CASE OtherStarts
  BY <1>7 DEF OtherStarts
<1>8. CASE Refetch
  BY <1>8 DEF Refetch
<1>9. CASE Read
  BY <1>9 DEF Read
<1>10. CASE Receive
  BY <1>10 DEF Receive
<1>11. CASE LoadFails
  BY <1>11 DEF LoadFails
<1>12. CASE Connect
  BY <1>12 DEF Connect
<1>13. CASE Drop
  BY <1>13 DEF Drop
<1>14. CASE ROTCompleted
  BY <1>14 DEF ROTCompleted
<1>15. CASE Completed
  BY <1>15 DEF Completed
<1>16. CASE Failed
  BY <1>16 DEF Failed
<1>17. CASE Progressed
  BY <1>17 DEF Progressed
<1>18. CASE Finish
  BY <1>18 DEF Finish
<1>19. CASE Timeout
  BY <1>19 DEF Timeout
<1>20. CASE Revisit
  BY <1>20 DEF Revisit
<1>21. ASSUME NEW j \in running, Progress(j) PROVE Goal
  BY <1>21 DEF Progress, Send
<1>22. ASSUME NEW j \in running, NEW end \in Ends, End(j, end) PROVE Goal
  BY <1>22 DEF End, Send
<1>23. CASE UpdateReads
  BY <1>23 DEF UpdateReads
<1>24. CASE UpdateWrites
  BY <1>24 DEF UpdateWrites
<1>25. CASE UpdateFails
  BY <1>25 DEF UpdateFails
<1> QED
  BY <1>1, <1>2, <1>3, <1>4, <1>5, <1>6, <1>7, <1>8, <1>9, <1>10, <1>11,
     <1>12, <1>13, <1>14, <1>15, <1>16, <1>17, <1>18, <1>19, <1>20, <1>21, <1>22,
     <1>23, <1>24, <1>25 DEF Next

\* Every step keeps the page calm.
LEMMA CalmStep ==
    ASSUME TypeOK, Parts, Calm, [Next]_vars
    PROVE  Calm'
<1> DEFINE Goal == Calm'
<1> USE BoundsAssumption DEF TypeOK, Statuses, Parts, Calm, Events, Kinds,
        job, client, history, CloseStream
<1>1. CASE UNCHANGED vars
  BY <1>1 DEF vars
<1>2. CASE Click
  <2>1. CASE foreign'
    BY <2>1
  <2>2. CASE ~foreign'
    <3>1. closing = 0 /\ inbox = <<>> /\ {shown, load} \ {"none", "unread"} = {status}
      <4>1. foreign' = (closing > 0 \/ inbox # <<>>
                           \/ {shown, load} \ {"none", "unread"} # {status})
        BY <1>2 DEF Click
      <4>2. ~(closing > 0 \/ inbox # <<>>
                \/ {shown, load} \ {"none", "unread"} # {status})
        BY <2>2, <4>1, Zenon
      <4> QED BY <4>2
    <3>2. shown \in {status} /\ (load \in {"none", "unread"} \/ load \in {status})
      BY <3>1
    <3> QED BY <1>2, <3>1, <3>2 DEF Click
  <2> QED BY <2>1, <2>2
<1>3. CASE Accept
  BY <1>3 DEF Accept
<1>4. CASE Refuse
  BY <1>4 DEF Refuse
<1>5. CASE Answer
  BY <1>5 DEF Answer
<1>6. CASE AnswerFails
  BY <1>6 DEF AnswerFails
<1>7. CASE OtherStarts
  BY <1>7 DEF OtherStarts
<1>8. CASE Refetch
  BY <1>8 DEF Refetch
<1>9. CASE Read
  BY <1>9 DEF Read
<1>10. CASE Receive
  <2>1. CASE page = "source"
    <3>1. /\ shown' = load /\ load' = "none" /\ load \notin {"none", "unread"}
          /\ UNCHANGED <<page, clicks, request, closing, status, running, foreign, overwritten>>
      BY <1>10 DEF Receive
    <3> QED BY <2>1, <3>1
  <2>2. CASE page # "source"
    BY <1>10, <2>2 DEF Receive
  <2> QED BY <2>1, <2>2
<1>11. CASE LoadFails
  BY <1>11 DEF LoadFails
<1>12. CASE Connect
  BY <1>12 DEF Connect
<1>13. CASE Drop
  BY <1>13 DEF Drop
<1>14. CASE ROTCompleted
  BY <1>14 DEF ROTCompleted
<1>15. CASE Completed
  BY <1>15 DEF Completed
<1>16. CASE Failed
  BY <1>16 DEF Failed
<1>17. CASE Progressed
  BY <1>17 DEF Progressed
<1>18. CASE Finish
  BY <1>18 DEF Finish
<1>19. CASE Timeout
  BY <1>19 DEF Timeout
<1>20. CASE Revisit
  BY <1>20 DEF Revisit
<1>21. ASSUME NEW j \in running, Progress(j) PROVE Goal
  BY <1>21 DEF Progress, Send
<1>22. ASSUME NEW j \in running, NEW end \in Ends, End(j, end) PROVE Goal
  BY <1>22 DEF End, Send
<1>23. CASE UpdateReads
  BY <1>23 DEF UpdateReads
<1>24. CASE UpdateWrites
  BY <1>24 DEF UpdateWrites
<1>25. CASE UpdateFails
  BY <1>25 DEF UpdateFails
<1> QED
  BY <1>1, <1>2, <1>3, <1>4, <1>5, <1>6, <1>7, <1>8, <1>9, <1>10, <1>11,
     <1>12, <1>13, <1>14, <1>15, <1>16, <1>17, <1>18, <1>19, <1>20, <1>21, <1>22,
     <1>23, <1>24, <1>25 DEF Next

-----------------------------------------------------------------------------
\* Initially nothing is watched.
LEMMA Start ==
    ASSUME Init
    PROVE  TypeOK /\ Parts /\ Calm
BY BoundsAssumption
DEF Init, TypeOK, Statuses, Ends, Parts, Events, Kinds, Calm

\* The invariant of the watch.
LEMMA CalmHolds == Spec => [](TypeOK /\ Parts /\ Calm)
<1>1. TypeOK /\ Parts /\ Calm /\ [Next]_vars
        => (TypeOK /\ Parts /\ Calm)'
  BY TypesStep, PartsStep, CalmStep
<1> QED BY <1>1, Start, PTL DEF Spec

\* The type invariant: a page that waits for an event has a stream to wait on.
THEOREM TypesHold == Spec => []TypeOK
BY CalmHolds, PTL

\* What is on its way to a calm data source page.
LEMMA CalmSource ==
    ASSUME Calm, clicks > 0, clicks \in running, ~foreign, ~overwritten, page = "source"
    PROVE  load \in {"none", "unread", shown, "scanning"}
BY DEF Calm

\* A step that frees a page whose job runs is one of the named ones.
LEMMA BusyStep ==
    ASSUME TypeOK, Parts, Calm, [Next]_vars
    PROVE  StaysBusy
<1> DEFINE Goal == StaysBusy
<1> USE BoundsAssumption DEF TypeOK, Statuses, Parts, Calm, StaysBusy, Events, Kinds,
        job, client, history, CloseStream
<1>1. CASE UNCHANGED vars
  BY <1>1 DEF vars
<1>2. CASE Click
  BY <1>2 DEF Click
<1>3. CASE Accept
  BY <1>3 DEF Accept
<1>4. CASE Refuse
  BY <1>4 DEF Refuse
<1>5. CASE Answer
  BY <1>5 DEF Answer
<1>6. CASE AnswerFails
  BY <1>6 DEF AnswerFails
<1>7. CASE OtherStarts
  BY <1>7 DEF OtherStarts
<1>8. CASE Refetch
  BY <1>8 DEF Refetch
<1>9. CASE Read
  BY <1>9 DEF Read
<1>10. CASE Receive
  <2>1. /\ busy' = (busy /\ (load = shown \/ load = "scanning"))
        /\ load \notin {"none", "unread"} /\ page = "source"
    BY <1>10 DEF Receive
  <2>2. CASE ~(busy /\ clicks \in running /\ ~foreign /\ ~overwritten)
    BY <2>2
  <2>3. CASE busy /\ clicks \in running /\ ~foreign /\ ~overwritten
    <3>0. clicks > 0
      BY <2>3, Zenon
    <3>1. load \in {"none", "unread", shown, "scanning"}
      BY <2>1, <2>3, <3>0, CalmSource
    <3>2. load = shown \/ load = "scanning"
      BY <2>1, <3>1, Zenon
    <3> QED BY <2>1, <2>3, <3>2, Zenon
  <2> QED BY <2>2, <2>3
<1>11. CASE LoadFails
  BY <1>11 DEF LoadFails
<1>12. CASE Connect
  BY <1>12 DEF Connect
<1>13. CASE Drop
  BY <1>13 DEF Drop
<1>14. CASE ROTCompleted
  BY <1>14 DEF ROTCompleted
<1>15. CASE Completed
  BY <1>15 DEF Completed
<1>16. CASE Failed
  BY <1>16 DEF Failed
<1>17. CASE Progressed
  BY <1>17 DEF Progressed
<1>18. CASE Finish
  BY <1>18 DEF Finish
<1>19. CASE Timeout
  BY <1>19 DEF Timeout
<1>20. CASE Revisit
  BY <1>20 DEF Revisit
<1>21. ASSUME NEW j \in running, Progress(j) PROVE Goal
  BY <1>21 DEF Progress, Send
<1>22. ASSUME NEW j \in running, NEW end \in Ends, End(j, end) PROVE Goal
  BY <1>22 DEF End, Send
<1>23. CASE UpdateReads
  BY <1>23 DEF UpdateReads
<1>24. CASE UpdateWrites
  BY <1>24 DEF UpdateWrites
<1>25. CASE UpdateFails
  BY <1>25 DEF UpdateFails
<1> QED
  BY <1>1, <1>2, <1>3, <1>4, <1>5, <1>6, <1>7, <1>8, <1>9, <1>10, <1>11,
     <1>12, <1>13, <1>14, <1>15, <1>16, <1>17, <1>18, <1>19, <1>20, <1>21, <1>22,
     <1>23, <1>24, <1>25 DEF Next

\* A page goes on being busy while its job runs, in spite of lost events, failed loads and
\* another user's job, unless it gave up on its request or on the job, was left, or an update of
\* the data source put an older status over "scanning".
THEOREM BusyHolds == Spec => BusyWhileRunning
<1>1. TypeOK /\ Parts /\ Calm /\ [Next]_vars => [StaysBusy]_vars
  BY BusyStep
<1> QED BY <1>1, CalmHolds, PTL DEF Spec, BusyWhileRunning
=============================================================================
