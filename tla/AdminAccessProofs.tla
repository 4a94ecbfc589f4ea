-------------------------- MODULE AdminAccessProofs --------------------------
(***************************************************************************)
(* Proofs about AdminAccess for any browsers, any number of requests in    *)
(* progress and any secrets.  As long as the requests that change the row  *)
(* do not overlap (Alone), what such a request read still holds when it    *)
(* writes (StillSo); once they have, LockoutIsPermanent takes over.        *)
(***************************************************************************)
EXTENDS AdminAccess, TLAPS

Alone ==
    \A v, w \in Workers :
        job[v].step \in Changing /\ job[w].step \in Changing => v = w

StillSo ==
    \A w \in Workers :
        /\ job[w].step = "setup" => ~row.enabled
        /\ job[w].step = "enable" => row.secret \in scanned

\* A login is some browser's, a reply carries a secret.
Known ==
    \A w \in Workers :
        /\ job[w].step = "login" => job[w].by \in Browsers
        /\ job[w].step = "reply" => job[w].code \in Secrets

Inv ==
    /\ TypeOK /\ Known
    /\ session = {} /\ loaded = {}
    /\ ~overlap => Alone /\ StillSo /\ (row.enabled => row.secret \in scanned)

-----------------------------------------------------------------------------
LEMMA InitInv == Init => Inv
<1> SUFFICES ASSUME Init PROVE Inv
    OBVIOUS
<1>1. Idle \in Job
    BY DEF Idle, Job, Steps, Row
<1>2. TypeOK
    BY <1>1 DEF Init, TypeOK, Row, Pages, AdminPages
<1>3. \A w \in Workers : job[w].step = "idle"
    BY DEF Init, Idle
<1>4. Known /\ Alone /\ StillSo /\ ~row.enabled
    BY <1>3 DEF Known, Alone, StillSo, Changing, Init
<1> QED BY <1>2, <1>4 DEF Inv, Init

\* A request that begins: what it has read is what it will find, unless another one changes it.
LEMMA BeginKeeps ==
    ASSUME Inv, NEW w \in Workers, NEW b \in Browsers, NEW code \in Secrets \cup {None},
           NEW step \in {"login", "setup", "enable", "disable"}, Begin(w, step, b, code),
           UNCHANGED <<row, scanned, issued, client>>,
           step = "setup" => ~row.enabled,
           step = "enable" => row.secret \in scanned
    PROVE  Inv'
<1> DEFINE j == [step |-> step, by |-> b, seen |-> row, code |-> code]
<1>1. /\ job \in [Workers -> Job] /\ row \in Row /\ overlap \in BOOLEAN
      /\ job' = [job EXCEPT ![w] = j]
      /\ overlap' = (overlap \/ (step \in Changing /\ \E v \in Workers : job[v].step \in Changing))
    BY DEF Begin, Inv, TypeOK
<1>2. j \in Job
    BY <1>1 DEF Job, Steps
<1>3. /\ job' \in [Workers -> Job] /\ job'[w].step = step /\ job'[w].by = b
      /\ \A v \in Workers \ {w} : job'[v] = job[v]
    BY <1>1, <1>2
<1>4. overlap' \in BOOLEAN
    BY <1>1
<1>5. TypeOK'
    BY <1>3, <1>4 DEF Inv, TypeOK, client
<1>6. ASSUME ~overlap' PROVE (Alone /\ StillSo /\ (row.enabled => row.secret \in scanned))'
    <2>1. ~overlap /\ (step \in Changing => \A v \in Workers : job[v].step \notin Changing)
        BY <1>1, <1>6
    <2>2. Alone'
        BY <2>1, <1>3 DEF Inv, Alone
    <2>3. StillSo'
        BY <2>1, <1>3 DEF Inv, StillSo
    <2> QED BY <2>1, <2>2, <2>3 DEF Inv
<1>7. Known'
    BY <1>3 DEF Inv, Known
<1> QED BY <1>5, <1>6, <1>7 DEF Inv, client

\* A request that ends, or goes on without a change of the row, leaves the others what they read.
LEMMA EndKeeps ==
    ASSUME Inv, NEW w \in Workers, NEW j \in Job, j.step \in {"idle", "reply"},
           j.step = "reply" => j.code \in Secrets,
           job' = [job EXCEPT ![w] = j], overlap' = overlap, UNCHANGED <<session, loaded>>,
           row' \in Row, scanned \subseteq scanned', scanned' \subseteq Secrets,
           issued' \subseteq Secrets, cookie' \subseteq Browsers, page' \in [Browsers -> Pages],
           row' # row => job[w].step \in Changing,
           ~overlap => (row'.enabled => row'.secret \in scanned')
    PROVE  Inv'
<1>1. /\ job' \in [Workers -> Job] /\ job'[w].step \notin Changing
      /\ \A v \in Workers \ {w} : job'[v] = job[v]
    BY DEF Inv, TypeOK, Changing
<1>2. TypeOK'
    BY <1>1 DEF Inv, TypeOK
<1>3. ASSUME ~overlap' PROVE (Alone /\ StillSo)'
    <2>1. Alone'
        BY <1>1, <1>3 DEF Inv, Alone
    <2>2. ASSUME NEW v \in Workers, job'[v].step \in {"setup", "enable"} PROVE row' = row
        <3>1. v # w /\ job[v].step \in Changing
            BY <1>1, <2>2 DEF Changing
        <3> QED BY <3>1, <1>3 DEF Inv, Alone
    <2>3. StillSo'
        BY <1>1, <1>3, <2>2 DEF Inv, StillSo, Changing
    <2> QED BY <2>1, <2>3
<1>4. Known'
    <2>1. job'[w] = j
        BY DEF Inv, TypeOK
    <2> QED BY <2>1, <1>1 DEF Inv, Known
<1> QED BY <1>2, <1>3, <1>4 DEF Inv

LEMMA NextInv == Inv /\ [Next]_vars => Inv'
<1> SUFFICES ASSUME Inv, [Next]_vars PROVE Inv'
    OBVIOUS
<1> USE DEF server, client
<1>1. /\ row \in Row /\ job \in [Workers -> Job] /\ scanned \subseteq Secrets
      /\ issued \subseteq Secrets /\ cookie \subseteq Browsers /\ page \in [Browsers -> Pages]
      /\ Idle \in Job /\ Idle.step = "idle"
    BY DEF Inv, TypeOK, Idle, Job, Steps, Row
<1>2. ASSUME NEW w \in Workers, NEW b \in Browsers, Login(w, b) PROVE Inv'
    <2>1. PICK code \in scanned \cup {None} : Begin(w, "login", b, code)
        BY <1>2 DEF Login
    <2>2. code \in Secrets \cup {None}
        BY <1>1
    <2> QED BY <1>2, <2>1, <2>2, BeginKeeps DEF Login
<1>3. ASSUME NEW w \in Workers, NEW b \in Browsers, Setup2FA(w, b) PROVE Inv'
    BY <1>3, BeginKeeps DEF Setup2FA
<1>4. ASSUME NEW w \in Workers, NEW b \in Browsers, Enable2FA(w, b) PROVE Inv'
    <2>1. PICK code \in scanned : Verified(row, code) /\ Begin(w, "enable", b, code)
        BY <1>4 DEF Enable2FA
    <2>2. row.secret \in scanned /\ code \in Secrets
        BY <1>1, <2>1 DEF Verified
    <2> QED BY <1>4, <2>1, <2>2, BeginKeeps DEF Enable2FA
<1>5. ASSUME NEW w \in Workers, NEW b \in Browsers, Disable2FA(w, b) PROVE Inv'
    <2>1. PICK code \in scanned : Begin(w, "disable", b, code)
        BY <1>5 DEF Disable2FA
    <2>2. code \in Secrets
        BY <1>1
    <2> QED BY <1>5, <2>1, <2>2, BeginKeeps DEF Disable2FA
<1>6. ASSUME NEW w \in Workers, LoginEnd(w) PROVE Inv'
    <2>1. job[w] \in Job /\ job[w].step = "login"
        BY <1>1, <1>6 DEF LoginEnd
    <2>2. CASE UNCHANGED <<cookie, page>>
        BY <2>2, <1>1, <1>6, EndKeeps DEF LoginEnd, End, Inv
    <2>3. CASE SetCookie(job[w].by) /\ GoToPanel(job[w].by)
        <3>1. job[w].by \in Browsers
            BY <2>1 DEF Inv, Known
        <3>2. cookie' \subseteq Browsers /\ page' \in [Browsers -> Pages]
            BY <3>1, <2>3, <1>1 DEF SetCookie, GoToPanel, Pages, AdminPages
        <3> QED BY <3>2, <1>1, <1>6, EndKeeps DEF LoginEnd, End, Inv
    <2> QED BY <2>2, <2>3, <1>6 DEF LoginEnd
<1>7. ASSUME NEW w \in Workers, SetupWrite(w) PROVE Inv'
    <2>1. PICK s \in Secrets \ issued :
            /\ row' = [row EXCEPT !.secret = s] /\ issued' = issued \cup {s}
            /\ job' = [job EXCEPT ![w].step = "reply", ![w].code = s]
        BY <1>7 DEF SetupWrite
    <2>2. PICK r \in Row : r = row
        BY <1>1
    <2>3. row' \in Row /\ row'.enabled = row.enabled
        <3>1. row' = [r EXCEPT !.secret = s]
            BY <2>1, <2>2
        <3> QED BY <3>1, <2>2 DEF Row
    <2>4. PICK k \in Job : k = job[w]
        BY <1>1
    <2>5. PICK j \in Job : j = [k EXCEPT !.step = "reply"] /\ j.step = "reply"
        <3>1. [k EXCEPT !.step = "reply"] \in Job /\ [k EXCEPT !.step = "reply"].step = "reply"
            BY DEF Job, Steps
        <3> QED BY <3>1
    <2>6. PICK i \in Job : i = [j EXCEPT !.code = s] /\ i.step = "reply" /\ i.code = s
        <3>1. /\ [j EXCEPT !.code = s] \in Job /\ [j EXCEPT !.code = s].step = "reply"
              /\ [j EXCEPT !.code = s].code = s
            BY <2>5 DEF Job
        <3> QED BY <3>1
    <2>7. job' = [job EXCEPT ![w] = i]
        <3>1. job' = [[job EXCEPT ![w].step = "reply"] EXCEPT ![w].code = s]
            BY <2>1
        <3>2. [job EXCEPT ![w].step = "reply"] = [job EXCEPT ![w] = j]
            BY <1>1, <2>4, <2>5
        <3>3. [[job EXCEPT ![w] = j] EXCEPT ![w].code = s] = [job EXCEPT ![w] = i]
            BY <1>1, <2>6
        <3> QED BY <3>1, <3>2, <3>3
    <2>8. job[w].step = "setup" /\ UNCHANGED <<scanned, overlap, cookie, page, session, loaded>>
        BY <1>7 DEF SetupWrite
    <2>9. ~overlap => ~row'.enabled
        BY <2>3, <2>8 DEF Inv, StillSo
    <2>10. row' \in Row /\ issued' \subseteq Secrets /\ job[w].step \in Changing
        BY <1>1, <2>1, <2>3, <2>8 DEF Changing
    <2> QED BY <1>1, <2>6, <2>7, <2>8, <2>9, <2>10, EndKeeps
<1>8. ASSUME NEW w \in Workers, SetupReply(w) PROVE Inv'
    <2>1. job[w] \in Job /\ job[w].step = "reply"
        BY <1>1, <1>8 DEF SetupReply
    <2>2. job[w].code \in Secrets
        BY <2>1 DEF Inv, Known
    <2>3. /\ scanned \subseteq scanned' /\ scanned' \subseteq Secrets
          /\ job' = [job EXCEPT ![w] = Idle]
          /\ UNCHANGED <<row, overlap, issued, cookie, page, session, loaded>>
        BY <1>1, <1>8, <2>2 DEF SetupReply, End
    <2> QED BY <1>1, <2>3, EndKeeps DEF Inv
<1>9. ASSUME NEW w \in Workers, EnableWrite(w) PROVE Inv'
    <2>1. PICK r \in Row : r = row
        BY <1>1
    <2>2. row' = [r EXCEPT !.enabled = TRUE]
        BY <1>9, <2>1 DEF EnableWrite
    <2>3. row' \in Row /\ row'.secret = row.secret
        BY <2>1, <2>2 DEF Row
    <2>4. job[w].step = "enable" /\ (~overlap => row.secret \in scanned)
        BY <1>9 DEF EnableWrite, Inv, StillSo
    <2>5. /\ job' = [job EXCEPT ![w] = Idle] /\ job[w].step \in Changing
          /\ UNCHANGED <<scanned, overlap, issued, cookie, page, session, loaded>>
        BY <1>9 DEF EnableWrite, End, Changing
    <2> QED BY <1>1, <2>3, <2>4, <2>5, EndKeeps
<1>10. ASSUME NEW w \in Workers, DisableWrite(w) PROVE Inv'
    <2>1. row' \in Row /\ ~row'.enabled
        BY <1>10 DEF DisableWrite, Row
    <2> QED BY <1>1, <1>10, <2>1, EndKeeps DEF DisableWrite, End, Changing
<1>11. ASSUME NEW b \in Browsers,
              Logout(b) \/ Expire(b) \/ ShowPage(b) \/ (\E p \in Pages : Visit(b, p))
       PROVE  Inv'
    <2> USE DEF Logout, Expire, ShowPage, AdminPage, Admin2FAPage, FraudAdminPage, Visit
    <2>1. UNCHANGED server /\ UNCHANGED <<session>> /\ loaded' = {}
        BY <1>11 DEF Inv
    <2>2. cookie' \subseteq Browsers /\ page' \in [Browsers -> Pages]
        <3>1. "login" \in Pages
            BY DEF Pages
        <3> QED BY <3>1, <1>1, <1>11
    <2>3. TypeOK'
        BY <2>1, <2>2 DEF Inv, TypeOK
    <2> QED BY <2>1, <2>3 DEF Inv, Known, Alone, StillSo
<1>12. CASE UNCHANGED vars
    BY <1>12 DEF vars, Inv, TypeOK, Known, Alone, StillSo
<1> QED BY <1>2, <1>3, <1>4, <1>5, <1>6, <1>7, <1>8, <1>9, <1>10, <1>11, <1>12 DEF Next

LEMMA InvHolds == Spec => []Inv
BY InitInv, NextInv, PTL DEF Spec

-----------------------------------------------------------------------------
\* The rows, requests and browsers keep their types.
THEOREM AccessTyped == Spec => []TypeOK
<1>1. Inv => TypeOK
    BY DEF Inv
<1> QED BY <1>1, InvHolds, PTL

\* Nobody is locked out by repeated set-ups and lost answers: it takes two requests that change
\* the row at one time, however many browsers and requests there are.
THEOREM LockoutTakesOverlap == Spec => []LockoutNeedsOverlap
<1>1. Inv => LockoutNeedsOverlap
    BY DEF Inv, LockoutNeedsOverlap
<1> QED BY <1>1, InvHolds, PTL

\* No admin page ever asks for its data: nothing sets adminSession.
THEOREM PanelStaysEmpty == Spec => []PanelNeverLoads
<1>1. Inv => PanelNeverLoads
    BY DEF Inv, PanelNeverLoads
<1> QED BY <1>1, InvHolds, PTL

\* Two-factor login without a secret stays so: each of the three requests that could end it is
\* refused, whatever else happens.
THEOREM LockoutStays == Spec => LockoutIsPermanent
<1>1. ASSUME TypeOK, LockedOut, [Next]_vars PROVE LockedOut'
    <2>1. row.enabled /\ row.secret = None /\ \A w \in Workers : job[w].step \notin Changing
        BY <1>1 DEF LockedOut
    <2>2. ASSUME NEW w \in Workers, NEW b \in Browsers, NEW code, Begin(w, "login", b, code),
                 row' = row
          PROVE  LockedOut'
        BY <1>1, <2>1, <2>2 DEF Begin, LockedOut, TypeOK, Changing
    <2>3. ASSUME NEW w \in Workers, End(w), row' = row PROVE LockedOut'
        BY <1>1, <2>1, <2>3 DEF End, LockedOut, TypeOK, Idle, Changing
    <2>4. ASSUME NEW w \in Workers, NEW b \in Browsers, Login(w, b) PROVE LockedOut'
        BY <2>2, <2>4 DEF Login
    <2>5. \A w \in Workers, b \in Browsers :
            ~Setup2FA(w, b) /\ ~Enable2FA(w, b) /\ ~Disable2FA(w, b)
        BY <2>1 DEF Setup2FA, Enable2FA, Disable2FA, Verified
    <2>6. \A w \in Workers : ~SetupWrite(w) /\ ~EnableWrite(w) /\ ~DisableWrite(w)
        BY <2>1 DEF SetupWrite, EnableWrite, DisableWrite, Changing
    <2>7. ASSUME NEW w \in Workers, LoginEnd(w) \/ SetupReply(w) PROVE LockedOut'
        BY <2>3, <2>7 DEF LoginEnd, SetupReply
    <2>8. ASSUME NEW b \in Browsers,
                 Logout(b) \/ Expire(b) \/ ShowPage(b) \/ (\E p \in Pages : Visit(b, p))
          PROVE  LockedOut'
        BY <1>1, <2>8 DEF Logout, Expire, ShowPage, AdminPage, Admin2FAPage, FraudAdminPage, Visit,
                          server, LockedOut
    <2>9. CASE UNCHANGED vars
        BY <1>1, <2>9 DEF vars, server, LockedOut
    <2> QED BY <1>1, <2>4, <2>5, <2>6, <2>7, <2>8, <2>9 DEF Next
<1>2. TypeOK /\ [Next]_vars => [LockedOut => LockedOut']_vars
    BY <1>1
<1> QED BY <1>2, AccessTyped, PTL DEF Spec, LockoutIsPermanent
=============================================================================
