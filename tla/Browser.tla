------------------------------ MODULE Browser ------------------------------
(***************************************************************************)
(* One browser tab with the demo front end: the pages that sign in         *)
(* (Login.jsx, OAuthCallback.jsx) and the one that shows the profile and   *)
(* signs out (Me.jsx), the access token in sessionStorage (auth-store.js), *)
(* the refresh cookie, and the service behind api.js as far as the tab can *)
(* tell: which sessions are live and who took the one-time code.           *)
(*                                                                         *)
(* The grain of atomicity is one turn of the tab's event loop; what the    *)
(* service and the network do happens between the turns.  The pages        *)
(* without a session (signup, find-id, forgot, reset) and the GET of the   *)
(* profile, which changes nothing, are reduced to what Me.jsx does.        *)
(*                                                                         *)
(* A session, its access token and its refresh cookie are named by the     *)
(* call that opened it.                                                    *)
(***************************************************************************)
EXTENDS Naturals

CONSTANTS
  Calls,      \* the POSTs the tab may send
  None

ASSUME BrowserAssumption == None \notin Calls

VARIABLES
  page,     \* the page that is mounted
  mounting, \* runs of OAuthCallback's effect still due; the event loop waits
  heard,    \* the exchange whose answer the mounted callback page awaits
  failed,   \* the callback page shows that the login failed
  form,     \* the login the mounted Login page awaits
  asking,   \* the mounted Me page awaits the profile
  profile,  \* it shows the profile, and with it the logout button
  cached,   \* exchangeByCode: the exchange of the code in the URL
  behind,   \* the URL with the code is in the tab's history
  kind,     \* what each call is
  phase,    \* how far it has come
  script,   \* the calls of the current page load: their continuations exist
  sent,     \* the refresh cookie a call carried
  granted,  \* the calls that the service has answered with a success
  live,     \* the sessions the service would refresh
  taken,    \* the call that consumed the one-time code
  token,    \* sessionStorage
  landed,   \* history: every token that was ever stored there
  cookie    \* the cookie jar

shown == <<page, heard, failed, asking, profile>>
url == <<cached, behind>>
tab == <<shown, mounting, form, url>>
call == <<kind, script, sent>>
net == <<call, phase>>
service == <<granted, live, taken>>
stored == <<token, landed, cookie>>
vars == <<tab, net, service, stored>>

-----------------------------------------------------------------------------

Pages == {"login", "callback", "me"}

Kinds == {"none", "login", "exchange", "logout"}

(* "answered": the service is done and the response is on its way.         *)
(* "arrived" and "broken": the fetch promise is resolved, or rejected.     *)
(* "reading": res.json() is pending; "done": nobody will look at it again. *)
Phases == {"idle", "sent", "answered", "arrived", "broken", "reading", "done"}

(* React Router shows page p: what is mounted gives way, its cleanup runs, *)
(* and the effect of Me.jsx asks for the profile if t is a token.  Nothing *)
(* happens if p is mounted already.                                        *)
Show(p, t) ==
  IF page = p
  THEN UNCHANGED shown
  ELSE /\ page' = p
       /\ heard' = {}
       /\ failed' = FALSE
       /\ asking' = (p = "me" /\ t # None)
       /\ profile' = FALSE

Send(c, k) ==
  /\ kind[c] = "none"
  /\ kind' = [kind EXCEPT ![c] = k]
  /\ phase' = [phase EXCEPT ![c] = "sent"]
  /\ script' = script \cup {c}
  /\ sent' = [sent EXCEPT ![c] = cookie]

(* api.exchange, whose promise exchangeByCode keeps. *)
Post(c) ==
  /\ heard' = {c}
  /\ cached' = c
  /\ Send(c, "exchange")

Becomes(c, f) == phase' = [phase EXCEPT ![c] = f]

(* The event loop takes up the continuation of call c, of kind k. *)
Resumes(c, k, phases) ==
  /\ mounting = 0
  /\ c \in script
  /\ kind[c] = k
  /\ phase[c] \in phases

Init ==
  /\ page = "login"
  /\ mounting = 0
  /\ heard = {}
  /\ failed = FALSE
  /\ form = None
  /\ asking = FALSE
  /\ profile = FALSE
  /\ cached = None
  /\ behind = FALSE
  /\ kind = [c \in Calls |-> "none"]
  /\ phase = [c \in Calls |-> "idle"]
  /\ script = {}
  /\ sent = [c \in Calls |-> None]
  /\ granted = {}
  /\ live = {}
  /\ taken = None
  /\ token = None
  /\ landed = {}
  /\ cookie = None

-----------------------------------------------------------------------------
(* Faulty variants of the helpers below, with one plausible bug each; no   *)
(* specification uses them, each breaks one of the properties.             *)

(* Attach that posts the code whenever the effect runs. *)
PostAgain(c) == Post(c)

(* Attach that remembers that it has run, and does nothing the next time. *)
RunOnce(c) ==
  IF cached = None THEN Post(c) ELSE heard' = {} /\ UNCHANGED <<cached, net>>

(* Unread with the parsed body cached in place of the response. *)
AnyTime == {"arrived", "done"}

(* Revoke that looks for the token in the body, where api.js puts none. *)
BodyOnly(t) == UNCHANGED live

(* Store of a field the answer does not have. *)
StoreUndefined(c) == token' = "undefined" /\ UNCHANGED landed

-----------------------------------------------------------------------------
(* The user *)

(* A NavLink of App.jsx. *)
Click(p) ==
  /\ mounting = 0
  /\ page # p
  /\ Show(p, token)
  /\ form' = None
  /\ UNCHANGED <<mounting, url, net, service, stored>>

(* The provider's round trip ends on /auth/callback?code=..., or that page *)
(* is reloaded: a new page load.  (Bound: a call is left for its effect.)  *)
(* A development build's StrictMode runs the effect, its cleanup, and the  *)
(* effect again.                                                           *)
Load ==
  /\ mounting = 0
  /\ \E c \in Calls : kind[c] = "none"
  /\ page' = "callback"
  /\ mounting' \in {1, 2}
  /\ heard' = {}
  /\ failed' = FALSE
  /\ form' = None
  /\ asking' = FALSE
  /\ profile' = FALSE
  /\ cached' = None
  /\ behind' = TRUE
  /\ script' = {}
  /\ UNCHANGED <<kind, phase, sent, service, stored>>

(* The back button mounts the callback page again, in the same page load. *)
Back ==
  /\ mounting = 0
  /\ page # "callback"
  /\ behind /\ cached # None
  /\ Show("callback", None)
  /\ mounting' \in {1, 2}
  /\ form' = None
  /\ UNCHANGED <<url, net, service, stored>>

(* Login.jsx onSubmit; busy disables the button meanwhile. *)
SubmitLogin(c) ==
  /\ mounting = 0
  /\ page = "login" /\ form = None
  /\ Send(c, "login")
  /\ form' = c
  /\ UNCHANGED <<shown, mounting, url, service, stored>>

(* Me.jsx onLogout; its button is never disabled. *)
SubmitLogout(c) ==
  /\ mounting = 0
  /\ page = "me" /\ profile
  /\ Send(c, "logout")
  /\ UNCHANGED <<tab, service, stored>>

-----------------------------------------------------------------------------
(* The service and the network *)

(* login: the right password or not. *)
ServeLogin(c) ==
  /\ kind[c] = "login" /\ phase[c] = "sent"
  /\ \/ granted' = granted \cup {c} /\ live' = live \cup {c}
     \/ UNCHANGED <<granted, live>>
  /\ Becomes(c, "answered")
  /\ UNCHANGED <<tab, call, taken, stored>>

(* exchange: the first to present the code, unless it has expired. *)
ServeExchange(c) ==
  /\ kind[c] = "exchange" /\ phase[c] = "sent"
  /\ \/ /\ taken = None
        /\ taken' = c
        /\ granted' = granted \cup {c}
        /\ live' = live \cup {c}
     \/ UNCHANGED <<taken, granted, live>>
  /\ Becomes(c, "answered")
  /\ UNCHANGED <<tab, call, stored>>

Revoke(t) == live' = live \ {t}

(* logout: 204 in any case; api.js sends no token in the body. *)
ServeLogout(c) ==
  /\ kind[c] = "logout" /\ phase[c] = "sent"
  /\ granted' = granted \cup {c}
  /\ Revoke(sent[c])
  /\ Becomes(c, "answered")
  /\ UNCHANGED <<tab, call, taken, stored>>

(* The response's headers arrive: Set-Cookie takes effect at once, in the  *)
(* order in which responses arrive.                                        *)
Deliver(c) ==
  /\ phase[c] = "answered"
  /\ cookie' = IF c \notin granted THEN cookie
               ELSE IF kind[c] = "logout" THEN None ELSE c
  /\ Becomes(c, "arrived")
  /\ UNCHANGED <<tab, call, service, token, landed>>

(* The connection fails, before or after the service did its part.  (A     *)
(* response that arrives, arrives with its body.)                          *)
Break(c) ==
  /\ phase[c] \in {"sent", "answered"}
  /\ Becomes(c, "broken")
  /\ UNCHANGED <<tab, call, service, stored>>

(* Me.jsx gets the profile, or a 401 for an expired access token. *)
AnswerProfile ==
  /\ mounting = 0
  /\ asking
  /\ asking' = FALSE
  /\ profile' \in BOOLEAN
  /\ UNCHANGED <<page, mounting, heard, failed, form, url, net, service,
                 stored>>

-----------------------------------------------------------------------------
(* The continuations *)

(* exchangeByCode in OAuthCallback's effect: one POST for all its runs,    *)
(* each of which replaces the handler of the previous one.                 *)
Attach(c) ==
  IF cached = None
  THEN Post(c)
  ELSE heard' = {cached} /\ UNCHANGED <<cached, net>>

Effect(c) ==
  /\ page = "callback" /\ mounting > 0
  /\ mounting' = mounting - 1
  /\ Attach(c)
  /\ UNCHANGED <<page, failed, form, asking, profile, behind, service, stored>>

(* When res.json() may be called: a Response is read once. *)
Unread == {"arrived"}

(* The handler of a page that is still mounted starts reading the body. *)
ReadExchange(c) ==
  /\ Resumes(c, "exchange", Unread)
  /\ c \in heard /\ c \in granted
  /\ heard' = {}
  /\ Becomes(c, "reading")
  /\ UNCHANGED <<page, mounting, failed, form, asking, profile, url, call,
                 service, stored>>

(* A 400, a lost connection, or a body that was read before. *)
ExchangeFails(c) ==
  /\ Resumes(c, "exchange", {"arrived", "broken", "reading", "done"})
  /\ c \in heard
  /\ phase[c] = "arrived" => c \notin granted
  /\ heard' = {}
  /\ failed' = TRUE
  /\ UNCHANGED <<page, mounting, form, asking, profile, url, net, service,
                 stored>>

(* setAccessToken *)
Store(c) ==
  /\ token' = c
  /\ landed' = landed \cup {c}

(* The body is there.  Whether the page still is, is not asked again. *)
LandExchange(c) ==
  /\ Resumes(c, "exchange", {"reading"})
  /\ Store(c)
  /\ Show("me", c)
  /\ behind' = (behind /\ page # "callback")
  /\ form' = None
  /\ Becomes(c, "done")
  /\ UNCHANGED <<mounting, cached, call, service, cookie>>

ReadLogin(c) ==
  /\ Resumes(c, "login", {"arrived"})
  /\ c \in granted
  /\ Becomes(c, "reading")
  /\ UNCHANGED <<tab, call, service, stored>>

LoginFails(c) ==
  /\ Resumes(c, "login", {"arrived", "broken"})
  /\ phase[c] = "arrived" => c \notin granted
  /\ form' = IF form = c THEN None ELSE form
  /\ Becomes(c, "done")
  /\ UNCHANGED <<shown, mounting, url, call, service, stored>>

(* The token is stored even if the Login page was left meanwhile. *)
LandLogin(c) ==
  /\ Resumes(c, "login", {"reading"})
  /\ Store(c)
  /\ Show("me", c)
  /\ form' = None
  /\ Becomes(c, "done")
  /\ UNCHANGED <<mounting, url, call, service, cookie>>

(* onLogout's finally, whatever became of the call. *)
LogoutEnds(c) ==
  /\ Resumes(c, "logout", {"arrived", "broken"})
  /\ token' = None
  /\ Show("login", None)
  /\ form' = IF page = "login" THEN form ELSE None
  /\ Becomes(c, "done")
  /\ UNCHANGED <<mounting, url, call, service, landed, cookie>>

-----------------------------------------------------------------------------

(* What happens by itself once a call is sent or a page is mounted. *)
Proceed ==
  \/ \E c \in Calls :
       \/ ServeLogin(c)
       \/ ServeExchange(c)
       \/ ServeLogout(c)
       \/ Deliver(c)
       \/ Effect(c)
       \/ ReadExchange(c)
       \/ ExchangeFails(c)
       \/ LandExchange(c)
       \/ ReadLogin(c)
       \/ LoginFails(c)
       \/ LandLogin(c)
       \/ LogoutEnds(c)
  \/ AnswerProfile

(* What the user does, and what may go wrong. *)
Outside ==
  \/ \E p \in {"login", "me"} : Click(p)
  \/ Load
  \/ Back
  \/ \E c \in Calls :
       \/ SubmitLogin(c)
       \/ SubmitLogout(c)
       \/ Break(c)

Next == Proceed \/ Outside

(* A call that was sent is answered and delivered, or breaks; the event    *)
(* loop runs what is ready.                                                *)
Fairness ==
  /\ \A c \in Calls :
       /\ WF_vars(ServeExchange(c))
       /\ WF_vars(Deliver(c))
       /\ WF_vars(ReadExchange(c))
       /\ WF_vars(ExchangeFails(c))
       /\ WF_vars(LandExchange(c))
  /\ WF_vars(\E c \in Calls : Effect(c))

Spec == Init /\ [][Next]_vars

FairSpec == Spec /\ Fairness

-----------------------------------------------------------------------------
(* Properties *)

(* The shape of the state. *)
TypeOK ==
  /\ page \in Pages
  /\ mounting \in 0..2
  /\ heard \subseteq Calls
  /\ \A c, d \in heard : c = d
  /\ failed \in BOOLEAN
  /\ form \in Calls \cup {None}
  /\ asking \in BOOLEAN
  /\ profile \in BOOLEAN
  /\ cached \in Calls \cup {None}
  /\ behind \in BOOLEAN
  /\ kind \in [Calls -> Kinds]
  /\ phase \in [Calls -> Phases]
  /\ script \subseteq Calls
  /\ sent \in [Calls -> Calls \cup {None}]
  /\ granted \subseteq Calls
  /\ live \subseteq Calls
  /\ taken \in Calls \cup {None}
  /\ token \in Calls \cup {None}
  /\ landed \subseteq Calls
  /\ cookie \in Calls \cup {None}

(* A page load posts the one-time code once, however often the callback    *)
(* page is mounted and its effect is run (the comment on exchangeByCode:   *)
(* "exchanged exactly ONCE"), so it never burns the code it still needs.   *)
PostedOnce ==
  \A c, d \in script : kind[c] = "exchange" /\ kind[d] = "exchange" => c = d

(* The callback page does not hang: while it is mounted, the live handler  *)
(* gets the shared answer and goes on to the profile, or says that the     *)
(* login failed ("let the live one handle it").                            *)
CallbackSettles == page = "callback" ~> page # "callback" \/ failed

(* A sign-in is over when the user signs out: no answer of an earlier      *)
(* login or exchange, kept in the cache or read twice, stores its access   *)
(* token again (LandExchange, LandLogin and the cached promise).           *)
SignInOnce ==
  [][token' \notin {token, None} => token' \notin landed]_vars

(* Signing out is not only local: once the tab has cleared its token after *)
(* a logout that was answered, the service refuses the refresh token that  *)
(* was in the cookie (Me.jsx: "revokes the refresh token").                *)
LogoutRevokes ==
  \A c \in granted :
    kind[c] = "logout" /\ phase[c] = "done" => sent[c] \notin live

=============================================================================
