--------------------------- MODULE SessionProofs ---------------------------
(***************************************************************************)
(* What holds of the sessions of any number of tabs and users: the type      *)
(* invariant, that the tab which last wrote the cookie agrees with it, that  *)
(* no tab holds a stranger's data unless it is mixed, and that every logout  *)
(* signs its tab out. The type invariant is inductive by itself, the others  *)
(* are beside it.                                                            *)
(***************************************************************************)
EXTENDS Session, TLAPS

\* A page load leaves every variable of the tab with a value of its type.
LEMMA LoadTypes ==
    ASSUME TypeOK, NEW t \in Tabs, NEW page \in {"login", "checking"},
           NEW user \in Users \union {Nobody},
           Load(t, page, user), jar' \in Users \union {Nobody}, setter' \in Tabs
    PROVE  TypeOK'
BY DEF TypeOK, Load

\* Every step keeps the types.
LEMMA TypesStep ==
    ASSUME TypeOK, [Next]_vars
    PROVE  TypeOK'
<1> DEFINE Goal == TypeOK'
<1>1. CASE UNCHANGED vars
  BY <1>1 DEF TypeOK, vars
<1>2. ASSUME NEW t \in Tabs, TabStep(t) PROVE Goal
  <2>1. ASSUME NEW user \in Users, Submit(t, user) PROVE Goal
    BY <2>1 DEF TypeOK, Submit
  <2>2. ASSUME NEW user \in Users, SSOCallback(t, user) PROVE Goal
    BY <2>2, LoadTypes, NobodyAssumption DEF SSOCallback, SetJar
  <2>3. ASSUME NEW user \in Users, FetchAnswered(t, user) PROVE Goal
    BY <2>3 DEF TypeOK, FetchAnswered
  <2>4. ASSUME LoginSucceeds(t) PROVE Goal
    BY <2>4 DEF TypeOK, LoginSucceeds, SetJar
  <2>5. ASSUME LoginRejected(t) PROVE Goal
    BY <2>5, NobodyAssumption DEF TypeOK, LoginRejected, Unauthorized, SetJar
  <2>6. ASSUME LoginFails(t) PROVE Goal
    BY <2>6 DEF TypeOK, LoginFails
  <2>7. ASSUME LogoutClick(t) PROVE Goal
    BY <2>7 DEF TypeOK, LogoutClick
  <2>8. ASSUME LogoutSucceeds(t) PROVE Goal
    BY <2>8 DEF TypeOK, LogoutSucceeds, SetJar
  <2>9. ASSUME LogoutFails(t) PROVE Goal
    BY <2>9, NobodyAssumption DEF TypeOK, LogoutFails, Settle, CheckAgain, SetJar
  <2>10. ASSUME LogoutRejected(t) PROVE Goal
    BY <2>10, NobodyAssumption DEF TypeOK, LogoutRejected, Settle, CheckAgain, Unauthorized,
       SetJar
  <2>11. ASSUME Leave(t) PROVE Goal
    BY <2>11 DEF TypeOK, Leave
  <2>12. ASSUME Enter(t) PROVE Goal
    BY <2>12 DEF TypeOK, Enter
  <2>13. ASSUME Reload(t) PROVE Goal
    BY <2>13, LoadTypes, NobodyAssumption DEF Reload, TypeOK
  <2>14. ASSUME Home(t) PROVE Goal
    BY <2>14, LoadTypes, NobodyAssumption DEF Home, TypeOK
  <2>15. ASSUME Fetch(t) PROVE Goal
    BY <2>15 DEF TypeOK, Fetch
  <2>16. ASSUME NEW user \in Users \union {Nobody}, FetchRejected(t, user) PROVE Goal
    BY <2>16, NobodyAssumption DEF TypeOK, FetchRejected, Unauthorized, SetJar
  <2>17. ASSUME NEW user \in Users \union {Nobody}, FetchFails(t, user) PROVE Goal
    BY <2>17 DEF TypeOK, FetchFails
  <2>18. ASSUME Check(t) PROVE Goal
    BY <2>18 DEF TypeOK, Check
  <2>19. ASSUME Unload(t) PROVE Goal
    BY <2>19, LoadTypes, NobodyAssumption DEF Unload, TypeOK
  <2> QED
    BY <1>2, <2>1, <2>2, <2>3, <2>4, <2>5, <2>6, <2>7, <2>8, <2>9, <2>10, <2>11, <2>12,
         <2>13, <2>14, <2>15, <2>16, <2>17, <2>18, <2>19 DEF TabStep
<1> QED BY <1>1, <1>2 DEF Next

\* The type invariant: whatever the app fetches without a token, before its layout
\* (layout.tsx) has looked for one or after the cookie is gone, never gets into the cache.
THEOREM TypesHold == Spec => []TypeOK
<1>1. Init => TypeOK
  BY DEF Init, TypeOK
<1>2. TypeOK /\ [Next]_vars => TypeOK'
  BY TypesStep
<1> QED BY <1>1, <1>2, PTL DEF Spec

\* Every step keeps the last writer of the cookie in agreement with it.
LEMMA SetterStep ==
    ASSUME TypeOK, SetterAgrees, [Next]_vars
    PROVE  SetterAgrees'
<1> DEFINE Goal == SetterAgrees'
<1>1. CASE UNCHANGED vars
  BY <1>1 DEF SetterAgrees, vars
<1>2. ASSUME NEW t \in Tabs, TabStep(t) PROVE Goal
  <2>1. ASSUME NEW user \in Users, Submit(t, user) PROVE Goal
    BY <2>1 DEF TypeOK, SetterAgrees, Submit
  <2>2. ASSUME NEW user \in Users, SSOCallback(t, user) PROVE Goal
    BY <2>2 DEF TypeOK, SetterAgrees, SSOCallback, SetJar, Load
  <2>3. ASSUME NEW user \in Users, FetchAnswered(t, user) PROVE Goal
    BY <2>3 DEF TypeOK, SetterAgrees, FetchAnswered
  <2>4. ASSUME LoginSucceeds(t) PROVE Goal
    BY <2>4 DEF TypeOK, SetterAgrees, LoginSucceeds, SetJar
  <2>5. ASSUME LoginRejected(t) PROVE Goal
    BY <2>5, NobodyAssumption DEF TypeOK, SetterAgrees, LoginRejected, Unauthorized, SetJar
  <2>6. ASSUME LoginFails(t) PROVE Goal
    BY <2>6 DEF TypeOK, SetterAgrees, LoginFails
  <2>7. ASSUME LogoutClick(t) PROVE Goal
    BY <2>7 DEF TypeOK, SetterAgrees, LogoutClick
  <2>8. ASSUME LogoutSucceeds(t) PROVE Goal
    BY <2>8 DEF TypeOK, SetterAgrees, LogoutSucceeds, SetJar
  <2>9. ASSUME LogoutFails(t) PROVE Goal
    BY <2>9, NobodyAssumption DEF TypeOK, SetterAgrees, LogoutFails, Settle, CheckAgain, SetJar
  <2>10. ASSUME LogoutRejected(t) PROVE Goal
    BY <2>10, NobodyAssumption DEF TypeOK, SetterAgrees, LogoutRejected, Settle, CheckAgain, Unauthorized,
       SetJar
  <2>11. ASSUME Leave(t) PROVE Goal
    BY <2>11 DEF TypeOK, SetterAgrees, Leave
  <2>12. ASSUME Enter(t) PROVE Goal
    BY <2>12 DEF TypeOK, SetterAgrees, Enter
  <2>13. ASSUME Reload(t) PROVE Goal
    BY <2>13 DEF TypeOK, SetterAgrees, Reload, Load
  <2>14. ASSUME Home(t) PROVE Goal
    BY <2>14 DEF TypeOK, SetterAgrees, Home, Load
  <2>15. ASSUME Fetch(t) PROVE Goal
    BY <2>15 DEF TypeOK, SetterAgrees, Fetch
  <2>16. ASSUME NEW user \in Users \union {Nobody}, FetchRejected(t, user) PROVE Goal
    BY <2>16, NobodyAssumption DEF TypeOK, SetterAgrees, FetchRejected, Unauthorized, SetJar
  <2>17. ASSUME NEW user \in Users \union {Nobody}, FetchFails(t, user) PROVE Goal
    BY <2>17 DEF TypeOK, SetterAgrees, FetchFails
  <2>18. ASSUME Check(t) PROVE Goal
    BY <2>18 DEF TypeOK, SetterAgrees, Check
  <2>19. ASSUME Unload(t) PROVE Goal
    BY <2>19 DEF TypeOK, SetterAgrees, Unload, Load
  <2> QED
    BY <1>2, <2>1, <2>2, <2>3, <2>4, <2>5, <2>6, <2>7, <2>8, <2>9, <2>10, <2>11, <2>12,
         <2>13, <2>14, <2>15, <2>16, <2>17, <2>18, <2>19 DEF TabStep
<1> QED BY <1>1, <1>2 DEF Next

\* Only another tab changes the cookie under a signed-in user (login page, useLogout, lib/api.ts).
THEOREM SetterHolds == Spec => []SetterAgrees
<1>1. Init => SetterAgrees
  BY DEF Init, SetterAgrees
<1>2. TypeOK /\ SetterAgrees /\ [Next]_vars => SetterAgrees'
  BY SetterStep
<1> QED BY <1>1, <1>2, TypesHold, PTL DEF Spec

\* Every step keeps strangers' data out of the unmixed tabs.
LEMMA ForeignStep ==
    ASSUME TypeOK, NoForeignData, [Next]_vars
    PROVE  NoForeignData'
<1> DEFINE Goal == NoForeignData'
<1>1. CASE UNCHANGED vars
  BY <1>1 DEF NoForeignData, Holds, vars
<1>2. ASSUME NEW t \in Tabs, TabStep(t) PROVE Goal
  <2>1. ASSUME NEW user \in Users, Submit(t, user) PROVE Goal
    BY <2>1 DEF TypeOK, NoForeignData, Holds, Submit
  <2>2. ASSUME NEW user \in Users, SSOCallback(t, user) PROVE Goal
    BY <2>2 DEF TypeOK, NoForeignData, Holds, SSOCallback, SetJar, Load
  <2>3. ASSUME NEW user \in Users, FetchAnswered(t, user) PROVE Goal
    BY <2>3 DEF TypeOK, NoForeignData, Holds, FetchAnswered
  <2>4. ASSUME LoginSucceeds(t) PROVE Goal
    <3>1. UNCHANGED <<cache, fetches>>
      BY <2>4 DEF LoginSucceeds
    <3>2. /\ \A u \in Tabs \ {t} : mixed'[u] = mixed[u] /\ store'[u] = store[u]
          /\ ~mixed'[t] => Holds(t) = {}
      BY <2>4 DEF TypeOK, LoginSucceeds
    <3>3. \A u \in Tabs : Holds(u)' = Holds(u)
      BY <3>1 DEF Holds
    <3> QED BY <3>2, <3>3 DEF NoForeignData
  <2>5. ASSUME LoginRejected(t) PROVE Goal
    BY <2>5, NobodyAssumption DEF TypeOK, NoForeignData, Holds, LoginRejected, Unauthorized, SetJar
  <2>6. ASSUME LoginFails(t) PROVE Goal
    BY <2>6 DEF TypeOK, NoForeignData, Holds, LoginFails
  <2>7. ASSUME LogoutClick(t) PROVE Goal
    BY <2>7 DEF TypeOK, NoForeignData, Holds, LogoutClick
  <2>8. ASSUME LogoutSucceeds(t) PROVE Goal
    BY <2>8 DEF TypeOK, NoForeignData, Holds, LogoutSucceeds, SetJar
  <2>9. ASSUME LogoutFails(t) PROVE Goal
    BY <2>9, NobodyAssumption DEF TypeOK, NoForeignData, Holds, LogoutFails, Settle, CheckAgain, SetJar
  <2>10. ASSUME LogoutRejected(t) PROVE Goal
    BY <2>10, NobodyAssumption DEF TypeOK, NoForeignData, Holds, LogoutRejected, Settle, CheckAgain, Unauthorized,
       SetJar
  <2>11. ASSUME Leave(t) PROVE Goal
    BY <2>11 DEF TypeOK, NoForeignData, Holds, Leave
  <2>12. ASSUME Enter(t) PROVE Goal
    <3>1. SUFFICES ASSUME NEW u \in Tabs, ~mixed[u]
                   PROVE  Holds(u) \subseteq {store'[u]}
      BY <2>12 DEF NoForeignData, Holds, Enter
    <3>2. Holds(u) \subseteq {store[u]} /\ Holds(u) \subseteq Users
      BY <3>1 DEF TypeOK, NoForeignData, Holds
    <3>3. CASE store'[u] = store[u]
      BY <3>2, <3>3
    <3>4. CASE store'[u] # store[u]
      <4>1. store[u] = Nobody
        BY <2>12, <3>4 DEF Enter, TypeOK
      <4> QED BY <4>1, <3>2, NobodyAssumption
    <3> QED BY <3>3, <3>4
  <2>13. ASSUME Reload(t) PROVE Goal
    BY <2>13 DEF TypeOK, NoForeignData, Holds, Reload, Load
  <2>14. ASSUME Home(t) PROVE Goal
    BY <2>14 DEF TypeOK, NoForeignData, Holds, Home, Load
  <2>15. ASSUME Fetch(t) PROVE Goal
    <3>1. UNCHANGED <<cache, store>>
      BY <2>15 DEF Fetch
    <3>2. /\ \A u \in Tabs \ {t} : mixed'[u] = mixed[u] /\ fetches'[u] = fetches[u]
          /\ fetches'[t] = fetches[t] \union {jar}
          /\ ~mixed'[t] => ~mixed[t] /\ jar \in {store[t], Nobody}
      BY <2>15 DEF TypeOK, Fetch
    <3> QED BY <3>1, <3>2 DEF NoForeignData, Holds
  <2>16. ASSUME NEW user \in Users \union {Nobody}, FetchRejected(t, user) PROVE Goal
    BY <2>16, NobodyAssumption DEF TypeOK, NoForeignData, Holds, FetchRejected, Unauthorized, SetJar
  <2>17. ASSUME NEW user \in Users \union {Nobody}, FetchFails(t, user) PROVE Goal
    BY <2>17 DEF TypeOK, NoForeignData, Holds, FetchFails
  <2>18. ASSUME Check(t) PROVE Goal
    BY <2>18 DEF TypeOK, NoForeignData, Holds, Check
  <2>19. ASSUME Unload(t) PROVE Goal
    BY <2>19 DEF TypeOK, NoForeignData, Holds, Unload, Load
  <2> QED
    BY <1>2, <2>1, <2>2, <2>3, <2>4, <2>5, <2>6, <2>7, <2>8, <2>9, <2>10, <2>11, <2>12,
         <2>13, <2>14, <2>15, <2>16, <2>17, <2>18, <2>19 DEF TabStep
<1> QED BY <1>1, <1>2 DEF Next

\* A tab that is not mixed holds the data of the user it shows and of nobody else (useLogout's
\* queryClient.clear(), and the full page loads of the interceptor and the SSO callback).
THEOREM NoForeignDataHolds == Spec => []NoForeignData
<1>1. Init => NoForeignData
  BY DEF Init, NoForeignData, Holds
<1>2. TypeOK /\ NoForeignData /\ [Next]_vars => NoForeignData'
  BY ForeignStep
<1> QED BY <1>1, <1>2, TypesHold, PTL DEF Spec

\* A step that ends a logout signs the tab out, or is a page load.
LEMMA SignsOutStep ==
    ASSUME TypeOK, [Next]_vars
    PROVE  SignsOut
<1> DEFINE Goal == SignsOut
<1>1. CASE UNCHANGED vars
  BY <1>1 DEF SignsOut, vars
<1>2. ASSUME NEW t \in Tabs, TabStep(t) PROVE Goal
  <2>1. ASSUME NEW user \in Users, Submit(t, user) PROVE Goal
    BY <2>1 DEF TypeOK, SignsOut, Submit
  <2>2. ASSUME NEW user \in Users, SSOCallback(t, user) PROVE Goal
    BY <2>2 DEF TypeOK, SignsOut, SSOCallback, SetJar, Load
  <2>3. ASSUME NEW user \in Users, FetchAnswered(t, user) PROVE Goal
    BY <2>3 DEF TypeOK, SignsOut, FetchAnswered
  <2>4. ASSUME LoginSucceeds(t) PROVE Goal
    BY <2>4 DEF TypeOK, SignsOut, LoginSucceeds, SetJar
  <2>5. ASSUME LoginRejected(t) PROVE Goal
    BY <2>5, NobodyAssumption DEF TypeOK, SignsOut, LoginRejected, Unauthorized, SetJar
  <2>6. ASSUME LoginFails(t) PROVE Goal
    BY <2>6 DEF TypeOK, SignsOut, LoginFails
  <2>7. ASSUME LogoutClick(t) PROVE Goal
    BY <2>7 DEF TypeOK, SignsOut, LogoutClick
  <2>8. ASSUME LogoutSucceeds(t) PROVE Goal
    BY <2>8 DEF TypeOK, SignsOut, LogoutSucceeds, SetJar
  <2>9. ASSUME LogoutFails(t) PROVE Goal
    BY <2>9, NobodyAssumption DEF TypeOK, SignsOut, LogoutFails, Settle, CheckAgain, SetJar
  <2>10. ASSUME LogoutRejected(t) PROVE Goal
    BY <2>10, NobodyAssumption DEF TypeOK, SignsOut, LogoutRejected, Settle, CheckAgain, Unauthorized,
       SetJar
  <2>11. ASSUME Leave(t) PROVE Goal
    BY <2>11 DEF TypeOK, SignsOut, Leave
  <2>12. ASSUME Enter(t) PROVE Goal
    BY <2>12 DEF TypeOK, SignsOut, Enter
  <2>13. ASSUME Reload(t) PROVE Goal
    BY <2>13 DEF TypeOK, SignsOut, Reload, Load
  <2>14. ASSUME Home(t) PROVE Goal
    BY <2>14 DEF TypeOK, SignsOut, Home, Load
  <2>15. ASSUME Fetch(t) PROVE Goal
    BY <2>15 DEF TypeOK, SignsOut, Fetch
  <2>16. ASSUME NEW user \in Users \union {Nobody}, FetchRejected(t, user) PROVE Goal
    BY <2>16, NobodyAssumption DEF TypeOK, SignsOut, FetchRejected, Unauthorized, SetJar
  <2>17. ASSUME NEW user \in Users \union {Nobody}, FetchFails(t, user) PROVE Goal
    BY <2>17 DEF TypeOK, SignsOut, FetchFails
  <2>18. ASSUME Check(t) PROVE Goal
    BY <2>18 DEF TypeOK, SignsOut, Check
  <2>19. ASSUME Unload(t) PROVE Goal
    BY <2>19 DEF TypeOK, SignsOut, Unload, Load
  <2> QED
    BY <1>2, <2>1, <2>2, <2>3, <2>4, <2>5, <2>6, <2>7, <2>8, <2>9, <2>10, <2>11, <2>12,
         <2>13, <2>14, <2>15, <2>16, <2>17, <2>18, <2>19 DEF TabStep
<1> QED BY <1>1, <1>2 DEF Next

\* However a logout ends, the tab is signed out (useLogout's onSettled).
THEOREM LogoutSignsOutHolds == Spec => LogoutSignsOut
<1>1. TypeOK /\ [Next]_vars => [SignsOut]_vars
  BY SignsOutStep
<1> QED BY <1>1, TypesHold, PTL DEF Spec, LogoutSignsOut

============================================================================
