------------------------------ MODULE Session ------------------------------
(***************************************************************************)
(* Who is signed in, and whose data a tab holds. The tabs of one browser     *)
(* share the cookie jar with the access token; each has its own auth store   *)
(* (store/auth.ts), its own React Query cache and its own requests in        *)
(* flight. A request carries the token that the jar holds when it is sent    *)
(* (lib/api.ts) and its answer goes to the cache of the tab that sent it. A  *)
(* full page load loses the store, the cache and the requests of the tab.    *)
(*                                                                           *)
(* The layout of the app shows its pages, and lets them fetch, before it     *)
(* looks for a cookie: in an effect of its own, and only when it is mounted  *)
(* or its user comes or goes. With another tab's cookie in the jar a tab     *)
(* without a user goes on showing the app. After a 401 the page lives on     *)
(* until the browser has loaded the login page.                              *)
(*                                                                           *)
(* The data are told apart by their user alone. The server may reject any    *)
(* token: it may have expired since.                                         *)
(***************************************************************************)
EXTENDS Naturals, FiniteSets

CONSTANTS
    Tabs, Users, Nobody,
    MaxTokens   \* a bound on the tokens of a tab's queries in flight

ASSUME NobodyAssumption == Nobody \notin Users
ASSUME BoundAssumption == MaxTokens \in Nat

VARIABLES
    jar,      \* the user of the accessToken cookie, or Nobody
    setter,   \* the tab that last wrote the jar, or none of them
    path,     \* "login"; or the app is shown: the layout is "checking" for a cookie yet,
              \* has done so ("app"), or is "leaving" for the login page
    store,    \* the user that the tab takes for signed in, or Nobody
    cache,    \* the users whose data are in the tab's query cache
    fetches,  \* the tokens of the tab's queries in flight (Nobody: none sent along)
    login,    \* the user whose login is in flight, or Nobody
    logout,   \* whether a logout is in flight
    unloading, \* the browser is about to load the login page anew
    mixed     \* the tab went on with its cache across a change of user

vars == <<jar, setter, path, store, cache, fetches, login, logout, unloading, mixed>>

Init ==
    /\ jar = Nobody /\ setter \in Tabs
    /\ path = [t \in Tabs |-> "login"]
    /\ store = [t \in Tabs |-> Nobody]
    /\ cache = [t \in Tabs |-> {}]
    /\ fetches = [t \in Tabs |-> {}]
    /\ login = [t \in Tabs |-> Nobody]
    /\ logout = [t \in Tabs |-> FALSE]
    /\ unloading = [t \in Tabs |-> FALSE]
    /\ mixed = [t \in Tabs |-> FALSE]

\* Whose data the tab has, or is about to get.
Holds(t) == cache[t] \union (fetches[t] \ {Nobody})

SetJar(t, user) == jar' = user /\ setter' = t

\* A full page load: a new store, a new cache, no requests.
Load(t, page, user) ==
    /\ path' = [path EXCEPT ![t] = page]
    /\ store' = [store EXCEPT ![t] = user]
    /\ cache' = [cache EXCEPT ![t] = {}]
    /\ fetches' = [fetches EXCEPT ![t] = {}]
    /\ login' = [login EXCEPT ![t] = Nobody]
    /\ logout' = [logout EXCEPT ![t] = FALSE]
    /\ unloading' = [unloading EXCEPT ![t] = FALSE]
    /\ mixed' = [mixed EXCEPT ![t] = FALSE]

\* The interceptor on a 401: remove the cookies, have the login page loaded.
Unauthorized(t) == SetJar(t, Nobody) /\ unloading' = [unloading EXCEPT ![t] = TRUE]

\* The effect of the layout runs again when the tab loses its user.
CheckAgain(t) ==
    path' = [path EXCEPT ![t] = IF @ = "app" /\ store[t] # Nobody THEN "checking" ELSE @]
----------------------------------------------------------------------------
(* Signing in *)

\* onSubmit of the login page.
Submit(t, user) ==
    /\ path[t] = "login" /\ login[t] = Nobody
    /\ login' = [login EXCEPT ![t] = user]
    /\ UNCHANGED <<jar, setter, path, store, cache, fetches, logout, unloading, mixed>>

\* The cookie and the store; the dashboard is entered next. What the cache holds stays.
LoginSucceeds(t) ==
    /\ login[t] # Nobody
    /\ SetJar(t, login[t])
    /\ store' = [store EXCEPT ![t] = login[t]]
    /\ path' = [path EXCEPT ![t] = IF @ = "login" THEN @ ELSE "checking"]
    /\ login' = [login EXCEPT ![t] = Nobody]
    /\ mixed' = [mixed EXCEPT ![t] = @ \/ Holds(t) # {}]
    /\ UNCHANGED <<cache, fetches, logout, unloading>>

\* A wrong password is a 401 like any other.
LoginRejected(t) ==
    /\ login[t] # Nobody
    /\ Unauthorized(t)
    /\ login' = [login EXCEPT ![t] = Nobody]
    /\ UNCHANGED <<path, store, cache, fetches, logout, mixed>>

LoginFails(t) ==
    /\ login[t] # Nobody
    /\ login' = [login EXCEPT ![t] = Nobody]
    /\ UNCHANGED <<jar, setter, path, store, cache, fetches, logout, unloading, mixed>>

\* The identity provider sends the browser back to auth/sso-callback.
SSOCallback(t, user) == SetJar(t, user) /\ Load(t, "login", user)
----------------------------------------------------------------------------
(* Signing out *)

LogoutClick(t) ==
    /\ path[t] # "login" /\ ~logout[t]
    /\ logout' = [logout EXCEPT ![t] = TRUE]
    /\ UNCHANGED <<jar, setter, path, store, cache, fetches, login, unloading, mixed>>

\* Mutant: the cache is not cleared.
LogoutSucceedsFull(t) ==
    /\ logout[t]
    /\ SetJar(t, Nobody)
    /\ store' = [store EXCEPT ![t] = Nobody]
    /\ path' = [path EXCEPT ![t] = IF @ = "login" THEN @ ELSE "leaving"]
    /\ logout' = [logout EXCEPT ![t] = FALSE]
    /\ UNCHANGED <<cache, fetches, login, unloading, mixed>>

\* onSuccess: the cookies, the store, the cache with its queries in flight, the login page.
LogoutSucceeds(t) ==
    /\ logout[t]
    /\ SetJar(t, Nobody)
    /\ store' = [store EXCEPT ![t] = Nobody]
    /\ cache' = [cache EXCEPT ![t] = {}]
    /\ fetches' = [fetches EXCEPT ![t] = {}]
    /\ mixed' = [mixed EXCEPT ![t] = FALSE]
    /\ path' = [path EXCEPT ![t] = IF @ = "login" THEN @ ELSE "leaving"]
    /\ logout' = [logout EXCEPT ![t] = FALSE]
    /\ UNCHANGED <<login, unloading>>

\* Mutants: nothing is done unless the server answers, or the store is forgotten.
LogoutFailsIdly(t) ==
    /\ logout[t]
    /\ logout' = [logout EXCEPT ![t] = FALSE]
    /\ UNCHANGED <<jar, setter, path, store, cache, fetches, login, unloading, mixed>>

LogoutFailsShown(t) ==
    /\ logout[t]
    /\ SetJar(t, Nobody)
    /\ logout' = [logout EXCEPT ![t] = FALSE]
    /\ UNCHANGED <<path, store, cache, fetches, login, unloading, mixed>>

\* onSettled alone: the cookies and the store. What the cache holds stays.
Settle(t) ==
    /\ logout[t]
    /\ store' = [store EXCEPT ![t] = Nobody]
    /\ CheckAgain(t)
    /\ logout' = [logout EXCEPT ![t] = FALSE]
    /\ mixed' = [mixed EXCEPT ![t] = @ \/ Holds(t) # {}]
    /\ UNCHANGED <<cache, fetches, login>>

LogoutFails(t) == Settle(t) /\ SetJar(t, Nobody) /\ UNCHANGED unloading

LogoutRejected(t) == Settle(t) /\ Unauthorized(t)
----------------------------------------------------------------------------
(* Moving about *)

\* To the login page, within the tab: the layout's redirect arrives, or the user's own.
Leave(t) ==
    /\ path[t] # "login"
    /\ path' = [path EXCEPT ![t] = "login"]
    /\ UNCHANGED <<jar, setter, store, cache, fetches, login, logout, unloading, mixed>>

\* The layout is mounted: it takes the session from the cookie unless the store has one,
\* and shows the page.
Enter(t) ==
    /\ path[t] = "login"
    /\ path' = [path EXCEPT ![t] = "checking"]
    /\ store' = [store EXCEPT ![t] = IF @ = Nobody THEN jar ELSE @]
    /\ UNCHANGED <<jar, setter, cache, fetches, login, logout, unloading, mixed>>

\* Its second effect: without a user and without a cookie it leaves.
Check(t) ==
    /\ path[t] = "checking"
    /\ path' = [path EXCEPT ![t] = IF store[t] = Nobody /\ jar = Nobody THEN "leaving" ELSE "app"]
    /\ UNCHANGED <<jar, setter, store, cache, fetches, login, logout, unloading, mixed>>

\* Reloading the app, or opening it anew: the layout again, in an empty tab.
Reload(t) == Load(t, "checking", jar) /\ UNCHANGED <<jar, setter>>

\* The login page arrives after a 401.
Unload(t) == unloading[t] /\ Load(t, "login", Nobody) /\ UNCHANGED <<jar, setter>>

\* The start page knows the store only, and a full load has emptied it.
Home(t) == Load(t, "login", Nobody) /\ UNCHANGED <<jar, setter>>
----------------------------------------------------------------------------
(* Queries *)

Fetch(t) ==
    /\ path[t] # "login"
    /\ Cardinality(fetches[t] \union {jar}) <= MaxTokens
    /\ fetches' = [fetches EXCEPT ![t] = @ \union {jar}]
    /\ mixed' = [mixed EXCEPT ![t] = @ \/ jar \notin {store[t], Nobody}]
    /\ UNCHANGED <<jar, setter, path, store, cache, login, logout, unloading>>

\* Mutant: a request without a token gets an answer as well.
FetchAnsweredFreely(t, user) ==
    /\ user \in fetches[t] \/ Nobody \in fetches[t]
    /\ cache' = [cache EXCEPT ![t] = @ \union fetches[t]]
    /\ fetches' = [fetches EXCEPT ![t] = {}]
    /\ UNCHANGED <<jar, setter, path, store, login, logout, unloading, mixed>>

FetchAnswered(t, user) ==
    /\ user \in fetches[t] \ {Nobody}
    /\ cache' = [cache EXCEPT ![t] = @ \union {user}]
    /\ fetches' = [fetches EXCEPT ![t] = @ \ {user}]
    /\ UNCHANGED <<jar, setter, path, store, login, logout, unloading, mixed>>

FetchRejected(t, user) ==
    /\ user \in fetches[t]
    /\ Unauthorized(t)
    /\ fetches' = [fetches EXCEPT ![t] = @ \ {user}]
    /\ UNCHANGED <<path, store, cache, login, logout, mixed>>

FetchFails(t, user) ==
    /\ user \in fetches[t]
    /\ fetches' = [fetches EXCEPT ![t] = @ \ {user}]
    /\ UNCHANGED <<jar, setter, path, store, cache, login, logout, unloading, mixed>>
----------------------------------------------------------------------------
TabStep(t) ==
    \/ \E user \in Users : Submit(t, user) \/ SSOCallback(t, user) \/ FetchAnswered(t, user)
    \/ LoginSucceeds(t) \/ LoginRejected(t) \/ LoginFails(t)
    \/ LogoutClick(t) \/ LogoutSucceeds(t) \/ LogoutFails(t) \/ LogoutRejected(t)
    \/ Leave(t) \/ Enter(t) \/ Check(t) \/ Reload(t) \/ Unload(t) \/ Home(t)
    \/ Fetch(t)
    \/ \E user \in Users \union {Nobody} : FetchRejected(t, user) \/ FetchFails(t, user)

Next == \E t \in Tabs : TabStep(t)

Spec == Init /\ [][Next]_vars
----------------------------------------------------------------------------
\* Beside the types: what is fetched without a token, which the app may do before its layout has
\* looked for one, never gets into the cache.
TypeOK ==
    /\ jar \in Users \union {Nobody}
    /\ setter \in Tabs
    /\ path \in [Tabs -> {"login", "checking", "app", "leaving"}]
    /\ store \in [Tabs -> Users \union {Nobody}]
    /\ cache \in [Tabs -> SUBSET Users]
    /\ fetches \in [Tabs -> SUBSET (Users \union {Nobody})]
    /\ login \in [Tabs -> Users \union {Nobody}]
    /\ logout \in [Tabs -> BOOLEAN]
    /\ unloading \in [Tabs -> BOOLEAN]
    /\ mixed \in [Tabs -> BOOLEAN]

\* The tab that last set or removed the cookie takes the cookie's user for signed in or nobody:
\* only another tab can change the cookie under a signed-in user. A tab whose request was a 401
\* keeps its user until it is unloaded.
SetterAgrees == unloading[setter] \/ store[setter] \in {jar, Nobody}

\* A tab holds the data of the user it shows and of nobody else: a logout leaves nothing behind
\* and no late answer brings it back. The exceptions are the tabs that went on with their cache
\* across a change of user: after a logout that failed, a login without a logout, or a change
\* of the cookie by another tab, which a tab without a user does not notice.
NoForeignData ==
    \A t \in Tabs : mixed[t] \/ Holds(t) \subseteq {store[t]}

\* However a logout ends, the tab is signed out: after a failure of the request too, and unless
\* the tab is loaded anew first, which leaves it empty and in agreement with the cookie.
SignsOut ==
    \A t \in Tabs : logout[t] /\ ~logout'[t]
       => store'[t] = Nobody \/ (store'[t] = jar' /\ cache'[t] = {} /\ fetches'[t] = {})

LogoutSignsOut == [][SignsOut]_vars
============================================================================
