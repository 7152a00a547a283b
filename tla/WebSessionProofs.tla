-------------------------- MODULE WebSessionProofs --------------------------
(***************************************************************************)
(* The safety properties of the login session, for any number of browsers, *)
(* tabs, accounts and ids and any timeout.  A step other than a login      *)
(* gives no browser an id it did not have (NoNewHolder), and a login makes *)
(* an id that nobody has; that a live session is only ended or renewed by  *)
(* its own browser is then read off each step, and so is that a session    *)
(* whose id nobody has is left to run out (OrphansFade).                   *)
(***************************************************************************)
EXTENDS WebSession, TLAPS

(* Each tab belongs to one browser. *)
LEMMA TabBrowser ==
  ASSUME NEW t \in Tabs
  PROVE  /\ Browser(t) \in Browsers /\ t \in TabsOf[Browser(t)]
         /\ \A b \in Browsers : t \in TabsOf[b] => b = Browser(t)
<1>1. \E b \in Browsers : t \in TabsOf[b]
  BY SessionAssumption
<1>2. Browser(t) \in Browsers /\ t \in TabsOf[Browser(t)]
  BY <1>1 DEF Browser
<1> QED
  BY <1>2, SessionAssumption

(* What the records of the module are. *)
LEMMA Records ==
  /\ Cleared \in Session /\ NoCookie \in Cookie
  /\ \A r \in Session : /\ r.sid \in Sids \cup {NoSid}
                        /\ r.user \in Accounts \cup {NoAccount} /\ r.left \in -1 .. Timeout
  /\ \A c \in Cookie : c.sid \in Sids \cup {NoSid} /\ c.left \in 0 .. Timeout
  /\ \A q \in Request : q.stage = "asked" /\ q.sid \in Sids \cup {NoSid}
                        /\ q.user \in Accounts \cup {NoAccount}
  /\ \A a \in Answer : a.stage = "answered" /\ a.set \in Sids \cup {NoSid, Keep}
  /\ Idle.stage = "idle"
  /\ Timeout \in Nat /\ 0 \in 0 .. Timeout /\ Timeout \in 0 .. Timeout
BY SessionAssumption DEF Session, Cleared, Cookie, NoCookie, Request, Answer, Idle

LEMMA LookedType ==
  ASSUME TypeOK, NEW ok \in BOOLEAN, ok => Live
  PROVE  /\ Looked(ok) \in Session
         /\ Looked(ok).sid = NoSid <=> Looked(ok).user = NoAccount
BY Records DEF TypeOK, Looked, Renewed, Cleared, Live, Expired, Valid, Session

LEMMA ReplyType ==
  ASSUME TypeOK, NEW t \in Tabs, NEW page \in Pages, NEW set \in Sids \cup {NoSid, Keep},
         Reply(t, page, set)
  PROVE  call' \in [Tabs -> Request \cup Answer \cup {Idle}]
BY DEF TypeOK, Reply, Answer

LEMMA InitType == Init => TypeOK
BY Records DEF Init, TypeOK, Cleared, Valid

LEMMA NextType == TypeOK /\ [Next]_vars => TypeOK'
<1> SUFFICES ASSUME TypeOK, [Next]_vars PROVE TypeOK'
  OBVIOUS
<1> USE Records
<1>1. ASSUME NEW t \in Tabs, NEW op \in Ops, NEW u \in Accounts \cup {NoAccount},
             Send(t, op, u)
      PROVE  TypeOK'
  BY <1>1, TabBrowser DEF Send, TypeOK, Request, Valid
<1>2. ASSUME NEW t \in Tabs, Receive(t) PROVE TypeOK'
  <2>1. call[t] \in Answer
    BY <1>2 DEF Receive, TypeOK
  <2>2. call[t].set \notin {Keep, NoSid} => [sid |-> call[t].set, left |-> Timeout] \in Cookie
    BY <2>1 DEF Cookie
  <2>3. jar' \in [Browsers -> Cookie]
    BY <1>2, <2>1, <2>2, TabBrowser DEF Receive, TypeOK
  <2> QED
    BY <1>2, <2>3 DEF Receive, TypeOK, Valid
<1>3. ASSUME NEW t \in Tabs, Lose(t) PROVE TypeOK'
  BY <1>3 DEF Lose, TypeOK, Valid
<1>4. ASSUME NEW t \in Tabs, Look(t) PROVE TypeOK'
  <2>1. PICK ok \in Recognised(t) :
          /\ session' = Looked(ok)
          /\ Reply(t, IF call[t].op # "look" THEN Home(ok) ELSE IF ok THEN "ok" ELSE "401",
                   Keep)
    BY <1>4 DEF Look
  <2>2. ok \in BOOLEAN /\ (ok => Live)
    BY <2>1 DEF Recognised
  <2>3. Home(ok) \in Pages
    BY <2>2 DEF Home, Pages
  <2>4. (IF call[t].op # "look" THEN Home(ok) ELSE IF ok THEN "ok" ELSE "401") \in Pages
    BY <2>3 DEF Pages
  <2> QED
    BY <1>4, <2>1, <2>2, <2>4, LookedType, ReplyType DEF Look, TypeOK, Valid
<1>5. ASSUME NEW t \in Tabs, LoginRefused(t) PROVE TypeOK'
  BY <1>5, ReplyType DEF LoginRefused, TypeOK, Valid, Pages
<1>6. ASSUME NEW t \in Tabs, LoginAgain(t) PROVE TypeOK'
  <2>1. PICK ok \in Recognised(t) :
          /\ session' = Looked(ok)
          /\ Reply(t, IF ok /\ session.user = call[t].user THEN "ok" ELSE "409", Keep)
    BY <1>6 DEF LoginAgain
  <2>2. ok \in BOOLEAN /\ (ok => Live)
    BY <2>1 DEF Recognised
  <2>3. (IF ok /\ session.user = call[t].user THEN "ok" ELSE "409") \in Pages
    BY DEF Pages
  <2> QED
    BY <1>6, <2>1, <2>2, <2>3, LookedType, ReplyType DEF LoginAgain, TypeOK, Valid
<1>7. ASSUME NEW t \in Tabs, Login(t) PROVE TypeOK'
  <2>1. PICK s \in Sids : /\ session' = [sid |-> s, user |-> call[t].user, left |-> Timeout]
                          /\ Reply(t, "ok", s)
    BY <1>7 DEF Login
  <2>2. call[t] \in Request /\ call[t].user \in Accounts
    BY <1>7 DEF Login, TypeOK
  <2>3. session' \in Session /\ Valid' /\ session'.user # NoAccount
    BY <2>1, <2>2, SessionAssumption DEF Session, Valid
  <2> QED
    BY <1>7, <2>1, <2>3, ReplyType DEF Login, TypeOK, Pages
<1>8. ASSUME NEW t \in Tabs, Logout(t) PROVE TypeOK'
  <2>1. PICK ok \in Recognised(t) : session' = IF ok THEN Cleared ELSE Looked(ok)
    BY <1>8 DEF Logout
  <2>2. ok \in BOOLEAN /\ (ok => Live)
    BY <2>1 DEF Recognised
  <2>3. session' \in Session /\ (Valid' <=> session'.user # NoAccount)
    BY <2>1, <2>2, LookedType DEF Valid, Cleared
  <2> QED
    BY <1>8, <2>3, ReplyType DEF Logout, TypeOK, Pages
<1>9. ASSUME Restart PROVE TypeOK'
  BY <1>9 DEF Restart, TypeOK, Valid, Cleared
<1>10. ASSUME Tick PROVE TypeOK'
  <2>1. session' \in Session /\ (Valid' <=> session'.user # NoAccount)
    BY <1>10 DEF Tick, TypeOK, Session, Valid
  <2>2. jar' \in [Browsers -> Cookie]
    BY <1>10 DEF Tick, TypeOK, Cookie
  <2> QED
    BY <1>10, <2>1, <2>2 DEF Tick, TypeOK
<1>11. CASE UNCHANGED vars
  BY <1>11 DEF vars, TypeOK, Valid
<1> QED
  BY <1>1, <1>2, <1>3, <1>4, <1>5, <1>6, <1>7, <1>8, <1>9, <1>10, <1>11 DEF Next, Handle

(* The session, the cookies and the calls are always well formed, and a *)
(* session always belongs to an account.                                *)
THEOREM TypeCorrect == Spec => []TypeOK
<1> QED
  BY InitType, NextType, PTL DEF Spec

-----------------------------------------------------------------------------
(* A step that is not a login gives no browser an id it does not have. *)
LEMMA NoNewHolder ==
  ASSUME TypeOK, [Next]_vars, \A t \in Tabs : ~Login(t),
         NEW b \in Browsers, NEW s \in Sids, Holds(b, s)'
  PROVE  Holds(b, s)
<1> USE Records, TabBrowser DEF Holds, Carries, TypeOK
<1>1. ASSUME NEW t \in Tabs, NEW op \in Ops, NEW u \in Accounts \cup {NoAccount},
             Send(t, op, u)
      PROVE  Holds(b, s)
  <2>1. /\ jar' = jar
        /\ call' = [call EXCEPT ![t] = [stage |-> "asked", op |-> op, user |-> u,
                                        sid |-> jar[Browser(t)].sid]]
    BY <1>1 DEF Send
  <2>2. \A v \in Tabs \ {t} : Carries(v, s)' => Carries(v, s)
    BY <2>1
  <2>3. Carries(t, s)' => jar[Browser(t)].sid = s
    BY <2>1
  <2> QED
    BY <2>1, <2>2, <2>3, SessionAssumption
<1>2. ASSUME NEW t \in Tabs, Receive(t) PROVE Holds(b, s)
  <2>1. call[t] \in Answer /\ call' = [call EXCEPT ![t] = Idle]
    BY <1>2 DEF Receive
  <2>2. \A v \in Tabs : Carries(v, s)' => Carries(v, s)
    BY <2>1
  <2>3. jar'[b].sid = s => jar[b].sid = s \/ (b = Browser(t) /\ call[t].set = s)
    BY <1>2, <2>1, SessionAssumption DEF Receive, NoCookie
  <2> QED
    BY <2>1, <2>2, <2>3, SessionAssumption
<1>3. ASSUME NEW t \in Tabs, Lose(t) PROVE Holds(b, s)
  BY <1>3, SessionAssumption DEF Lose
<1>4. ASSUME NEW t \in Tabs, NEW page, NEW set \in {NoSid, Keep}, Reply(t, page, set),
             UNCHANGED jar
      PROVE  Holds(b, s)
  <2>1. \A v \in Tabs : Carries(v, s)' => Carries(v, s)
    BY <1>4, SessionAssumption DEF Reply
  <2> QED
    BY <1>4, <2>1, SessionAssumption
<1>5. ASSUME NEW t \in Tabs, Handle(t) PROVE Holds(b, s)
  BY <1>4, <1>5 DEF Handle, Look, LoginRefused, LoginAgain, Logout
<1>6. CASE Restart \/ UNCHANGED vars
  BY <1>6 DEF Restart, vars
<1>7. CASE Tick
  BY <1>7, SessionAssumption DEF Tick, NoCookie
<1> QED
  BY <1>1, <1>2, <1>3, <1>5, <1>6, <1>7 DEF Next

LEMMA LoginHolder ==
  ASSUME TypeOK, NEW t \in Tabs, Login(t), NEW b \in Browsers, NEW s \in Sids, Holds(b, s)'
  PROVE  \/ Holds(b, s)
         \/ s \notin InUse /\ b = Browser(t)
<1> USE Records, TabBrowser DEF Holds, Carries, TypeOK
<1>1. PICK r \in Sids \ InUse : Reply(t, "ok", r)
  BY DEF Login
<1>2. jar' = jar
  BY DEF Login
<1>3. \A v \in Tabs \ {t} : Carries(v, s)' => Carries(v, s)
  BY <1>1 DEF Reply
<1>4. Carries(t, s)' => s = r
  BY <1>1 DEF Reply
<1> QED
  BY <1>1, <1>2, <1>3, <1>4, SessionAssumption

LEMMA HeldInUse ==
  ASSUME TypeOK, NEW b \in Browsers, NEW s \in Sids, Holds(b, s)
  PROVE  s \in InUse
BY SessionAssumption DEF Holds, Carries, InUse

LEMMA NextOneHolder == TypeOK /\ OneHolder /\ [Next]_vars => OneHolder'
<1> SUFFICES ASSUME TypeOK, OneHolder, [Next]_vars,
                    NEW s \in Sids, NEW a \in Browsers, NEW b \in Browsers,
                    Holds(a, s)', Holds(b, s)'
             PROVE  a = b
  BY DEF OneHolder
<1>1. CASE \A t \in Tabs : ~Login(t)
  BY <1>1, NoNewHolder DEF OneHolder
<1>2. ASSUME NEW t \in Tabs, Login(t) PROVE a = b
  BY <1>2, LoginHolder, HeldInUse DEF OneHolder
<1> QED
  BY <1>1, <1>2

(* A session's id is never known to two browsers, whatever is lost or late. *)
THEOREM IdHasOneHolder == Spec => []OneHolder
<1>1. Init => OneHolder
  <2> SUFFICES ASSUME Init, NEW s \in Sids, NEW b \in Browsers PROVE ~Holds(b, s)
    BY DEF OneHolder
  <2> QED
    BY SessionAssumption DEF Init, Holds, Carries, Idle, NoCookie
<1> QED
  BY <1>1, InitType, NextType, NextOneHolder, PTL DEF Spec

-----------------------------------------------------------------------------
(* What a step does to a live session. *)
LEMMA LiveStep ==
  ASSUME TypeOK, [Next]_vars, Live
  PROVE  /\ \/ session'.sid = session.sid /\ session'.user = session.user
            \/ /\ session' = Cleared
               /\ \/ UNCHANGED <<jar, call>>
                  \/ \E t \in Tabs : Served(t) /\ call[t].op = "logout"
         /\ session'.left > session.left => \E t \in Tabs : Served(t)
<1> USE Records DEF TypeOK, Live, Valid, Expired
<1>1. ASSUME NEW t \in Tabs, call[t].stage = "asked", NEW page, NEW set, Reply(t, page, set)
      PROVE  call'[t] # call[t]
  BY <1>1 DEF Reply
<1>2. ASSUME NEW ok \in BOOLEAN
      PROVE  /\ Looked(ok).sid = session.sid /\ Looked(ok).user = session.user
             /\ ~ok => Looked(ok) = session
  BY DEF Looked, Renewed, Session
<1>3. ASSUME NEW t \in Tabs, NEW ok \in Recognised(t), NEW page, NEW set,
             call[t].stage = "asked", Reply(t, page, set)
      PROVE  ok \in BOOLEAN /\ (ok => Served(t))
  BY <1>1, <1>3 DEF Recognised, Served
<1>4. ASSUME NEW t \in Tabs, Look(t) \/ LoginAgain(t)
      PROVE  /\ session'.sid = session.sid /\ session'.user = session.user
             /\ session'.left > session.left => Served(t)
  <2>1. call[t].stage = "asked"
    BY <1>4 DEF Look, LoginAgain
  <2>2. PICK ok \in Recognised(t) :
          session' = Looked(ok) /\ \E page, set : Reply(t, page, set)
    BY <1>4 DEF Look, LoginAgain
  <2> QED
    BY <1>2, <1>3, <2>1, <2>2
<1>5. ASSUME NEW t \in Tabs, Logout(t)
      PROVE  \/ UNCHANGED session
             \/ session' = Cleared /\ Served(t) /\ call[t].op = "logout"
  <2>1. call[t].stage = "asked" /\ call[t].op = "logout" /\ Reply(t, "ok", NoSid)
    BY <1>5 DEF Logout
  <2>2. PICK ok \in Recognised(t) : session' = IF ok THEN Cleared ELSE Looked(ok)
    BY <1>5 DEF Logout
  <2> QED
    BY <1>2, <1>3, <2>1, <2>2
<1>6. CASE Restart
  BY <1>6 DEF Restart, Cleared, Session
<1>7. CASE Tick
  BY <1>7 DEF Tick, Session
<1>8. ASSUME NEW t \in Tabs,
             \/ \E op \in Ops, u \in Accounts \cup {NoAccount} : Send(t, op, u)
             \/ Receive(t) \/ Lose(t) \/ LoginRefused(t)
      PROVE  UNCHANGED session
  BY <1>8 DEF Send, Receive, Lose, LoginRefused
<1>9. \A t \in Tabs : ~Login(t)
  BY DEF Login
<1>10. Cleared.left <= session.left
  BY DEF Cleared, Session
<1>11. CASE UNCHANGED vars
  BY <1>11 DEF vars, Session
<1>12. session.left \in Int
  BY DEF Session
<1> HIDE DEF TypeOK, Live, Valid, Expired
<1> QED
  BY <1>4, <1>5, <1>6, <1>7, <1>8, <1>9, <1>10, <1>11, <1>12 DEF Next, Handle

(* A live session keeps its id and its account until its own browser logs *)
(* out, it expires or the ESP32 restarts.                                 *)
THEOREM SessionNotTakenOver == Spec => NotTakenOver
<1>1. TypeOK /\ [Next]_vars =>
        [Live => \/ session'.sid = session.sid /\ session'.user = session.user
                 \/ /\ session' = Cleared
                    /\ \/ UNCHANGED <<jar, call>>
                       \/ \E t \in Tabs : Served(t) /\ call[t].op = "logout"]_vars
  BY LiveStep
<1> QED
  BY <1>1, TypeCorrect, PTL DEF Spec, NotTakenOver

(* Only a request that carries a live session's id prolongs it. *)
THEOREM SessionRenewedByHolder == Spec => RenewedByHolder
<1>1. TypeOK /\ [Next]_vars =>
        [Live /\ session'.left > session.left => \E t \in Tabs : Served(t)]_vars
  BY LiveStep
<1> QED
  BY <1>1, TypeCorrect, PTL DEF Spec, RenewedByHolder

-----------------------------------------------------------------------------
(* A session whose id nobody has: it is left alone, and its time runs out. *)
Fades ==
  Orphaned =>
    \/ ~Live'
    \/ /\ Orphaned' /\ session'.sid = session.sid
       /\ session'.left <= session.left /\ (Tick => session'.left < session.left)

\* No request with its id is under way, and none will be.
LEMMA OrphanStep == TypeOK /\ [Next]_vars => Fades
<1> SUFFICES ASSUME TypeOK, [Next]_vars, Orphaned, Live'
             PROVE  /\ Orphaned' /\ session'.sid = session.sid
                    /\ session'.left <= session.left
                    /\ Tick => session'.left < session.left
  BY DEF Fades
<1>1. session \in Session /\ session.sid \in Sids /\ session.left \in 0 .. Timeout
  BY Records DEF TypeOK, Orphaned, Live, Valid
<1>2. ASSUME NEW t \in Tabs PROVE ~Served(t)
  <2> SUFFICES ASSUME Served(t) PROVE FALSE
    OBVIOUS
  <2>1. Browser(t) \in Browsers /\ Holds(Browser(t), session.sid)
    BY TabBrowser DEF Served, Holds, Carries
  <2> QED
    BY <2>1 DEF Orphaned
<1>3. session'.sid = session.sid
  BY <1>2, LiveStep DEF Orphaned, Live, Valid, Cleared
<1>4. ~(session'.left > session.left)
  BY <1>2, LiveStep DEF Orphaned
<1>5. \A t \in Tabs : ~Login(t)
  BY DEF Login, Orphaned
<1>6. ASSUME NEW s \in Sids, s = session.sid, NEW b \in Browsers PROVE ~Holds(b, s)'
  BY <1>5, <1>6, NoNewHolder DEF Orphaned
<1>7. Orphaned'
  <2>1. PICK s \in Sids : s = session.sid
    BY <1>1
  <2>2. ASSUME NEW b \in Browsers, Holds(b, session.sid)' PROVE FALSE
    <3>1. Holds(b, s)'
      BY <1>3, <2>1, <2>2 DEF Holds, Carries
    <3> QED
      BY <1>6, <2>1, <3>1
  <2> QED
    BY <2>2 DEF Orphaned
<1>8. Tick => session'.left < session.left
  BY <1>1 DEF Tick, Session
<1>9. session'.left <= session.left
  <2>1. TypeOK'
    BY NextType
  <2>2. session'.left \in -1 .. Timeout
    BY <2>1, Records DEF TypeOK
  <2> QED
    BY <1>1, <1>4, <2>2, Records
<1> QED
  BY <1>3, <1>7, <1>8, <1>9

\* A session whose id nobody has any more has at most Timeout left, is never
\* renewed and found by nobody again, and every tick brings it nearer to its
\* end: with time passing, this is why OrphanEnds holds for every timeout.
\* (web_auth_get_session renews for the session's id only.)
THEOREM OrphansFade == Spec => [](Orphaned => session.left \in 0 .. Timeout) /\ [][Fades]_vars
<1>1. TypeOK => (Orphaned => session.left \in 0 .. Timeout)
  BY Records DEF TypeOK, Orphaned, Live
<1>2. TypeOK /\ [Next]_vars => [Fades]_vars
  BY OrphanStep
<1> QED
  BY <1>1, <1>2, TypeCorrect, PTL DEF Spec
=============================================================================
