----------------------------- MODULE WebSession -----------------------------
(***************************************************************************)
(* The login session of the web server (app_web_auth.c) and the handlers   *)
(* that look at it (index_handler and app_handler, app_web_pages.c).       *)
(*                                                                         *)
(* There is one session slot.  A browser holds its id as a cookie that the *)
(* browser drops Timeout after the login, while the server renews the      *)
(* session at every request that carries the id.  One task runs every      *)
(* handler, so a handler is one step; a request carries the cookie the     *)
(* browser had when it sent it, the tabs of a browser share its cookies,   *)
(* and requests and answers may be late, overtake each other or be lost.   *)
(***************************************************************************)
EXTENDS Integers, FiniteSets

CONSTANTS
  Browsers,
  Tabs,        \* each tab has at most one request open
  TabsOf,      \* the tabs of each browser
  Accounts,    \* s_web_auth_accounts
  Admins,      \* the accounts with WEB_AUTH_ROLE_ADMIN
  Sids,        \* session ids: esp_fill_random never repeats one in use
  NoSid,       \* no session, or no cookie
  Timeout      \* WEB_AUTH_SESSION_TIMEOUT_US, and Max-Age of the cookie

NoAccount == "nobody"  \* no session's user, and a wrong name or password
Keep == "keep"         \* an answer without Set-Cookie

ASSUME SessionAssumption ==
  /\ TabsOf \in [Browsers -> SUBSET Tabs]
  /\ \A t \in Tabs : \E b \in Browsers : t \in TabsOf[b]
  /\ \A a, b \in Browsers : a # b => TabsOf[a] \cap TabsOf[b] = {}
  /\ Admins \subseteq Accounts /\ NoAccount \notin Accounts
  /\ {NoSid, Keep} \cap Sids = {} /\ NoSid # Keep
  /\ Timeout \in Nat

VARIABLES
  session,   \* s_session_id, s_session_user and the time left until s_session_expire_us
  jar,       \* each browser's cookie and the time left until it drops it
  call       \* each tab's request and its answer

vars == <<session, jar, call>>

-----------------------------------------------------------------------------
Browser(t) == CHOOSE b \in Browsers : t \in TabsOf[b]

\* A negative `left` is a time past s_session_expire_us.
Session == [sid : Sids \cup {NoSid}, user : Accounts \cup {NoAccount}, left : -1 .. Timeout]
Cleared == [sid |-> NoSid, user |-> NoAccount, left |-> -1]
Renewed == [session EXCEPT !.left = Timeout]
Valid == session.sid # NoSid                 \* s_session_valid
Expired == Valid /\ session.left < 0
Live == Valid /\ session.left >= 0

Cookie == [sid : Sids \cup {NoSid}, left : 0 .. Timeout]
NoCookie == [sid |-> NoSid, left |-> 0]

\* What a browser asks for: "home" is / or /app, "look" a handler that calls
\* web_auth_get_session and nothing else that concerns the session.
Ops == {"home", "look", "login", "logout"}
Request == [stage : {"asked"}, op : Ops, user : Accounts \cup {NoAccount},
            sid : Sids \cup {NoSid}]
\* An answer: the page or status, and what its Set-Cookie does.
Pages == {"loginPage", "adminPage", "userPage", "ok", "401", "409"}
Answer == [stage : {"answered"}, page : Pages, set : Sids \cup {NoSid, Keep}]
Idle == [stage |-> "idle"]

Init ==
  /\ session = Cleared
  /\ jar = [b \in Browsers |-> NoCookie]
  /\ call = [t \in Tabs |-> Idle]

-----------------------------------------------------------------------------
(* The browser.                                                             *)

Send(t, op, u) ==
  /\ call[t] = Idle
  /\ u \in (IF op = "login" THEN Accounts \cup {NoAccount} ELSE {NoAccount})
  /\ call' = [call EXCEPT ![t] = [stage |-> "asked", op |-> op, user |-> u,
                                  sid |-> jar[Browser(t)].sid]]
  /\ UNCHANGED <<session, jar>>

Receive(t) ==
  /\ call[t].stage = "answered"
  /\ jar' = [jar EXCEPT ![Browser(t)] =
               CASE call[t].set = Keep  -> @
                 [] call[t].set = NoSid -> NoCookie
                 [] OTHER               -> [sid |-> call[t].set, left |-> Timeout]]
  /\ call' = [call EXCEPT ![t] = Idle]
  /\ UNCHANGED session

\* The request or its answer is lost, or the user closes the page.
Lose(t) ==
  /\ call[t] # Idle
  /\ call' = [call EXCEPT ![t] = Idle]
  /\ UNCHANGED <<session, jar>>

-----------------------------------------------------------------------------
(* The handlers.                                                            *)

\* web_auth_get_session returns true only for the id of a live session, and
\* may return false for it too: there may be no memory for the cookie.
Recognised(t) == IF Live /\ call[t].sid = session.sid THEN {TRUE, FALSE} ELSE {FALSE}

\* What web_auth_get_session does to the session.
\* (Variant: it renews the session before it compares the id.)
LookedRenews(ok) == IF Live THEN Renewed ELSE IF Expired THEN Cleared ELSE session
Looked(ok) == IF ok THEN Renewed ELSE IF Expired THEN Cleared ELSE session

Reply(t, page, set) ==
  call' = [call EXCEPT ![t] = [stage |-> "answered", page |-> page, set |-> set]]

Home(ok) == CASE ~ok                     -> "loginPage"
              [] session.user \in Admins -> "adminPage"
              [] OTHER                   -> "userPage"

\* index_handler (the login page, or a redirect to /app), app_handler (the
\* page of the role, or a redirect to the login page) and the others.
Look(t) ==
  /\ call[t].stage = "asked" /\ call[t].op \in {"home", "look"}
  /\ \E ok \in Recognised(t) :
       /\ session' = Looked(ok)
       /\ Reply(t, IF call[t].op = "home" THEN Home(ok) ELSE IF ok THEN "ok" ELSE "401", Keep)
  /\ UNCHANGED jar

\* login_handler: the form is unreadable or names no account.
LoginRefused(t) ==
  /\ call[t].stage = "asked" /\ call[t].op = "login" /\ call[t].user = NoAccount
  /\ Reply(t, "401", Keep)
  /\ UNCHANGED <<session, jar>>

\* login_handler while there is a session: the browser that has it stays
\* logged in, and may be told so; nobody else gets in.
\* (Variant: a second browser of the same account is let in.)
LoginShares(t) ==
  /\ call[t].stage = "asked" /\ call[t].op = "login" /\ call[t].user # NoAccount
  /\ Live
  /\ session' = Renewed
  /\ IF session.user = call[t].user THEN Reply(t, "ok", session.sid)
                                    ELSE Reply(t, "409", Keep)
  /\ UNCHANGED jar

LoginAgain(t) ==
  /\ call[t].stage = "asked" /\ call[t].op = "login" /\ call[t].user # NoAccount
  /\ Live
  /\ \E ok \in Recognised(t) :
       /\ session' = Looked(ok)
       /\ Reply(t, IF ok /\ session.user = call[t].user THEN "ok" ELSE "409", Keep)
  /\ UNCHANGED jar

InUse == {session.sid} \cup {jar[b].sid : b \in Browsers}
           \cup {call[t].sid : t \in {u \in Tabs : call[u].stage = "asked"}}
           \cup {call[t].set : t \in {u \in Tabs : call[u].stage = "answered"}}

\* login_handler without a session: web_auth_create_session.
Login(t) ==
  /\ call[t].stage = "asked" /\ call[t].op = "login" /\ call[t].user # NoAccount
  /\ ~Live
  /\ \E s \in Sids \ InUse :
       /\ session' = [sid |-> s, user |-> call[t].user, left |-> Timeout]
       /\ Reply(t, "ok", s)
  /\ UNCHANGED jar

\* logout_handler drops the cookie whatever it does to the session.
\* (Variant: it ends the session whoever asks.)
LogoutAny(t) ==
  /\ call[t].stage = "asked" /\ call[t].op = "logout"
  /\ session' = Cleared
  /\ Reply(t, "ok", NoSid)
  /\ UNCHANGED jar

Logout(t) ==
  /\ call[t].stage = "asked" /\ call[t].op = "logout"
  /\ \E ok \in Recognised(t) : session' = IF ok THEN Cleared ELSE Looked(ok)
  /\ Reply(t, "ok", NoSid)
  /\ UNCHANGED jar

Handle(t) == Look(t) \/ LoginRefused(t) \/ LoginAgain(t) \/ Login(t) \/ Logout(t)

\* The session is in RAM.
Restart ==
  /\ session' = Cleared
  /\ UNCHANGED <<jar, call>>

Tick ==
  /\ session' = [session EXCEPT !.left = IF @ < 0 THEN @ ELSE @ - 1]
  /\ jar' = [b \in Browsers |-> IF jar[b].left = 0 THEN NoCookie
                                ELSE [jar[b] EXCEPT !.left = @ - 1]]
  /\ UNCHANGED call

Next ==
  \/ \E t \in Tabs : \/ \E op \in Ops, u \in Accounts \cup {NoAccount} : Send(t, op, u)
                     \/ Receive(t) \/ Lose(t) \/ Handle(t)
  \/ Restart
  \/ Tick

Spec == Init /\ [][Next]_vars
\* Time passes, the server's task handles what it has received, and an answer
\* arrives or the connection breaks.
LiveSpec == Spec /\ WF_vars(Tick)
                 /\ \A t \in Tabs : WF_vars(Handle(t)) /\ WF_vars(Receive(t) \/ Lose(t))
-----------------------------------------------------------------------------
(* Properties.                                                              *)

TypeOK ==
  /\ session \in Session
  /\ jar \in [Browsers -> Cookie]
  /\ call \in [Tabs -> Request \cup Answer \cup {Idle}]
  /\ Valid <=> session.user # NoAccount

\* What tab t shows the server, or is about to put into its browser's jar.
Carries(t, s) == \/ call[t].stage = "asked" /\ call[t].sid = s
                 \/ call[t].stage = "answered" /\ call[t].set = s
Holds(b, s) == jar[b].sid = s \/ \E t \in TabsOf[b] : Carries(t, s)

\* A session id is only ever known to one browser, in its jar or under way:
\* a login answers 409 rather than share the session there is.
OneHolder == \A s \in Sids : \A a, b \in Browsers : Holds(a, s) /\ Holds(b, s) => a = b

\* A tab whose request with the session's id is being handled now.
Served(t) == /\ call[t].stage = "asked" /\ call[t].sid = session.sid
             /\ call'[t] # call[t]

\* Until it expires a session is neither replaced nor given to another
\* account: it ends when the browser that has it logs out, or by a restart.
NotTakenOver ==
  [][Live => \/ session'.sid = session.sid /\ session'.user = session.user
             \/ /\ session' = Cleared
                /\ \/ UNCHANGED <<jar, call>>
                   \/ \E t \in Tabs : Served(t) /\ call[t].op = "logout"]_vars

\* Only a request with the session's id renews it: attempts to log in from
\* elsewhere, or pages opened with an old cookie, do not prolong the wait.
RenewedByHolder ==
  [][Live /\ session'.left > session.left => \E t \in Tabs : Served(t)]_vars

\* When nobody has the session's id any more (the cookie has reached its age
\* while the session was being renewed, or its answer was lost, or an old
\* logout's answer dropped it), the session ends and the next login succeeds.
Orphaned == Live /\ \A b \in Browsers : ~Holds(b, session.sid)
OrphanEnds == Orphaned ~> ~Live
=============================================================================
