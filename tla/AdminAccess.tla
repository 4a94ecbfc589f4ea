----------------------------- MODULE AdminAccess -----------------------------
(***************************************************************************)
(* An administrator's access: AdminService (login and the three two-factor *)
(* requests), AdminController and AdminGuard, and the admin pages of the   *)
(* web client.  Each handler reads the admin's row, waits (bcrypt, Prisma) *)
(* and writes by id; nothing locks the row in between.                     *)
(*                                                                         *)
(* row:     twoFactorSecret and twoFactorEnabled of the admin              *)
(* job:     the handlers that have read and not yet finished               *)
(* cookie:  the browsers that hold a valid admin_token (24 hours, the life *)
(*          of the JWT in it)                                              *)
(* scanned: the secrets the administrator's authenticator knows; it can    *)
(*          give the codes of these and no others                          *)
(* issued:  the secrets generated so far                                   *)
(* page, session, loaded: the page a browser shows, whether localStorage   *)
(*          has adminSession, whether a page has asked for its data        *)
(* overlap: two requests that change the row have overlapped (history)     *)
(***************************************************************************)
EXTENDS Naturals

CONSTANTS Browsers, Workers, Secrets, None

ASSUME AdminAssumption == None \notin Secrets

VARIABLES row, job, cookie, scanned, issued, page, session, loaded, overlap

server == <<row, job, scanned, issued, overlap>>
client == <<cookie, page, session, loaded>>
vars   == <<server, client>>

Row == [secret: Secrets \cup {None}, enabled: BOOLEAN]
AdminPages == {"admin", "2fa", "fraud"}
Pages == AdminPages \cup {"login"}
Steps == {"idle", "login", "setup", "reply", "enable", "disable"}

\* seen: the row as read; code: the secret whose code was sent, or the secret being returned.
Job  == [step: Steps, by: Browsers \cup {None}, seen: Row, code: Secrets \cup {None}]
Idle == [step |-> "idle", by |-> None, seen |-> [secret |-> None, enabled |-> FALSE],
         code |-> None]

Init ==
    /\ row = [secret |-> None, enabled |-> FALSE]
    /\ job = [w \in Workers |-> Idle]
    /\ cookie = {} /\ scanned = {} /\ issued = {}
    /\ page = [b \in Browsers |-> "login"]
    /\ session = {} /\ loaded = {}
    /\ overlap = FALSE

-----------------------------------------------------------------------------
Changing == {"setup", "enable", "disable"}
Begin(w, step, b, code) ==
    /\ job[w].step = "idle"
    /\ job' = [job EXCEPT ![w] = [step |-> step, by |-> b, seen |-> row, code |-> code]]
    /\ overlap' = (overlap \/ (step \in Changing /\ \E v \in Workers : job[v].step \in Changing))

End(w) == job' = [job EXCEPT ![w] = Idle] /\ UNCHANGED overlap

\* AdminGuard: the cookie holds a token that still verifies.
SignedIn(b) == b \in cookie

\* The controller's answer to a login; the cookie lives as long as the token.
SetCookie(b) == cookie' = cookie \cup {b}

\* handleSubmit of the login page after an answer without an error, unless the page has been
\* left meanwhile and its script with it.
GoToPanel(b) ==
    \/ page' = [page EXCEPT ![b] = "admin"]
    \/ page[b] # "login" /\ UNCHANGED page

\* speakeasy.totp.verify: the code is one of the secret's; without a secret it throws.
Verified(r, code) == r.secret # None /\ code = r.secret

\* A right password; a wrong one changes nothing.  The code may be left out.
Login(w, b) ==
    /\ page[b] = "login"
    /\ \E code \in scanned \cup {None} : Begin(w, "login", b, code)
    /\ UNCHANGED <<row, scanned, issued, client>>

\* Mutant: the login page sets what the admin pages look for.
BugLoginEnd(w) ==
    LET j == job[w] IN
    /\ j.step = "login"
    /\ SetCookie(j.by) /\ GoToPanel(j.by) /\ session' = session \cup {j.by}
    /\ End(w)
    /\ UNCHANGED <<row, scanned, issued, loaded>>

\* The answer is decided on the row as it was read.  The browser keeps the cookie and goes to
\* the admin page.
LoginEnd(w) ==
    LET j == job[w]
        accepted == j.seen.enabled => Verified(j.seen, j.code)
    IN  /\ j.step = "login"
        /\ IF accepted THEN SetCookie(j.by) /\ GoToPanel(j.by) ELSE UNCHANGED <<cookie, page>>
        /\ End(w)
        /\ UNCHANGED <<row, scanned, issued, session, loaded>>

\* Mutant: 2FA that is on may be set up again.
BugSetup2FA(w, b) ==
    /\ SignedIn(b)
    /\ Begin(w, "setup", b, None)
    /\ UNCHANGED <<row, scanned, issued, client>>

Setup2FA(w, b) ==
    /\ SignedIn(b)
    /\ ~row.enabled
    /\ Begin(w, "setup", b, None)
    /\ UNCHANGED <<row, scanned, issued, client>>

SetupWrite(w) ==
    /\ job[w].step = "setup"
    /\ \E s \in Secrets \ issued :
        /\ row' = [row EXCEPT !.secret = s]
        /\ issued' = issued \cup {s}
        /\ job' = [job EXCEPT ![w].step = "reply", ![w].code = s]
    /\ UNCHANGED <<scanned, overlap, client>>

\* The QR code reaches the administrator, or the answer is lost.
SetupReply(w) ==
    /\ job[w].step = "reply"
    /\ \/ scanned' = scanned \cup {job[w].code}
       \/ UNCHANGED scanned
    /\ End(w)
    /\ UNCHANGED <<row, issued, client>>

\* Set up or not, enabled or not: only the code is looked at.
Enable2FA(w, b) ==
    /\ SignedIn(b)
    /\ \E code \in scanned : Verified(row, code) /\ Begin(w, "enable", b, code)
    /\ UNCHANGED <<row, scanned, issued, client>>

EnableWrite(w) ==
    /\ job[w].step = "enable"
    /\ row' = [row EXCEPT !.enabled = TRUE]
    /\ End(w)
    /\ UNCHANGED <<scanned, issued, client>>

Disable2FA(w, b) ==
    /\ SignedIn(b)
    /\ \E code \in scanned : Verified(row, code) /\ Begin(w, "disable", b, code)
    /\ UNCHANGED <<row, scanned, issued, client>>

\* Mutant: only the secret is cleared.
BugDisableWrite(w) ==
    /\ job[w].step = "disable"
    /\ row' = [row EXCEPT !.secret = None]
    /\ End(w)
    /\ UNCHANGED <<scanned, issued, client>>

DisableWrite(w) ==
    /\ job[w].step = "disable"
    /\ row' = [secret |-> None, enabled |-> FALSE]
    /\ End(w)
    /\ UNCHANGED <<scanned, issued, client>>

Logout(b) ==
    /\ SignedIn(b)
    /\ cookie' = cookie \ {b}
    /\ UNCHANGED <<server, page, session, loaded>>

\* The cookie and the token in it end after the same 24 hours.
Expire(b) ==
    /\ b \in cookie
    /\ cookie' = cookie \ {b}
    /\ UNCHANGED <<server, page, session, loaded>>

\* Any page may be asked for by its address.
Visit(b, p) ==
    /\ page' = [page EXCEPT ![b] = p]
    /\ UNCHANGED <<server, cookie, session, loaded>>

\* The effects of the admin pages when they are shown: without adminSession back to the login,
\* whatever the cookie; with it the page asks for the orders, ...
AdminPage(b) ==
    /\ page[b] = "admin"
    /\ IF b \in session
       THEN loaded' = loaded \cup {b} /\ UNCHANGED page
       ELSE page' = [page EXCEPT ![b] = "login"] /\ UNCHANGED loaded
    /\ UNCHANGED <<server, cookie, session>>

\* ... for the state of two-factor login, and goes back if the guard refuses that, ...
Admin2FAPage(b) ==
    /\ page[b] = "2fa"
    /\ IF b \in session THEN loaded' = loaded \cup {b} ELSE UNCHANGED loaded
    /\ page' = IF b \in session /\ SignedIn(b) THEN page ELSE [page EXCEPT ![b] = "login"]
    /\ UNCHANGED <<server, cookie, session>>

\* ... or for the fraud alerts.
FraudAdminPage(b) ==
    /\ page[b] = "fraud"
    /\ IF b \in session
       THEN loaded' = loaded \cup {b} /\ UNCHANGED page
       ELSE page' = [page EXCEPT ![b] = "login"] /\ UNCHANGED loaded
    /\ UNCHANGED <<server, cookie, session>>

ShowPage(b) == AdminPage(b) \/ Admin2FAPage(b) \/ FraudAdminPage(b)

Next ==
    \/ \E w \in Workers, b \in Browsers :
        Login(w, b) \/ Setup2FA(w, b) \/ Enable2FA(w, b) \/ Disable2FA(w, b)
    \/ \E w \in Workers :
        LoginEnd(w) \/ SetupWrite(w) \/ SetupReply(w) \/ EnableWrite(w) \/ DisableWrite(w)
    \/ \E b \in Browsers :
        Logout(b) \/ Expire(b) \/ ShowPage(b) \/ (\E p \in Pages : Visit(b, p))

Spec == Init /\ [][Next]_vars

-----------------------------------------------------------------------------
TypeOK ==
    /\ row \in Row /\ job \in [Workers -> Job]
    /\ cookie \subseteq Browsers /\ session \subseteq Browsers /\ loaded \subseteq Browsers
    /\ scanned \subseteq Secrets /\ issued \subseteq Secrets
    /\ page \in [Browsers -> Pages] /\ overlap \in BOOLEAN

\* As long as the requests that change the row do not overlap, two-factor login never asks for
\* a code the administrator cannot give, whatever answers are lost and set-ups repeated.
LockoutNeedsOverlap == ~overlap => (row.enabled => row.secret \in scanned)

LockedOut ==
    /\ row = [secret |-> None, enabled |-> TRUE]
    /\ \A w \in Workers : job[w].step \notin Changing

\* When they do overlap (enable2FA has read the secret, disable2FA clears it, enable2FA turns
\* the check on), 2FA is on without a secret, and no request of the API ever mends it: a set-up
\* is refused because 2FA is on, enabling and disabling because no code can be verified.
LockoutIsPermanent == [][LockedOut => LockedOut']_vars

\* The three admin pages send everyone back to the login, however they are come by: they look
\* for adminSession, which the login has ceased to set when it began to set a cookie.  README.md:199,
\* docs/SECURITY.md:9-23, docs/DEMO_MODE.md:53-63 and docs/ANTI_FRAUD.md:135-146 show them at work.
PanelNeverLoads == loaded = {}
=============================================================================
