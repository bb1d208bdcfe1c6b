------------------------------ MODULE Accounts ------------------------------
(***************************************************************************)
(* The users and auth_identities tables of auth-service and the requests   *)
(* that create, link and look up accounts: POST /auth/signup, the          *)
(* provisioning half of GET /auth/oauth/{provider}/callback (after its     *)
(* state is consumed and the provider has answered), and the lookup by an  *)
(* identifier at the head of POST /auth/login and                          *)
(* /auth/password/reset-request.                                           *)
(*                                                                         *)
(* A step is one SQL statement of a PostgreSQL READ COMMITTED transaction. *)
(* A SELECT sees committed rows only; an INSERT whose unique key belongs   *)
(* to a row of an open transaction waits for it to end, and fails if it    *)
(* committed.  The INSERT of an identity runs together with the COMMIT     *)
(* that follows it: a transaction between the two waits for nobody, so no  *)
(* other one can tell them apart.                                          *)
(*                                                                         *)
(* A request creates at most one user, which is named after it.            *)
(***************************************************************************)
EXTENDS Naturals, FiniteSets

CONSTANTS
  Requests,   \* the HTTP requests that may arrive
  Unreliable, \* those whose process or database connection may die
  Emails,     \* e-mail addresses
  Names,      \* what may be given as a username: any text, an address too
  Subjects,   \* accounts at the providers, i.e. (provider, provider_uid)
  AtNaver,    \* those at Naver, which sends no flag with an e-mail
  None

ASSUME AccountsAssumption ==
  /\ Unreliable \subseteq Requests
  /\ Emails \subseteq Names
  /\ AtNaver \subseteq Subjects
  /\ None \notin Requests \cup Names \cup Subjects
  /\ None # "object" \* an absent field is no JSON object

VARIABLES
  users,      \* committed rows of users
  identities, \* committed rows of auth_identities; by: who inserted it
  draft,      \* the user row an open transaction has flushed, or NoUser
  input,      \* what each request was sent
  owner,      \* the user a request is about, once it knows
  pc          \* where each request stands; Answered values are final

tables == <<users, identities>>
vars == <<tables, draft, input, owner, pc>>

-----------------------------------------------------------------------------

(* "conflict": 409.  "invalid": nobody was found, or login's password does *)
(* not fit.  "integrity": the 500 of an IntegrityError nobody catches.     *)
(* "ambiguous": the 500 of a scalar_one_or_none that met two rows.         *)
(* "error": the process died.                                              *)
Answered == {"ok", "conflict", "invalid", "integrity", "ambiguous", "error"}

Running == {"check", "find", "match", "insert", "commit", "mint", "lookup"}

NoUser == [id |-> None, email |-> None, username |-> None]

UserRows ==
  [id : Requests, email : Emails \cup {None}, username : Names \cup {None}]

(* The unique key of an identity: a local one has the signup's e-mail as   *)
(* its provider_uid.                                                       *)
Local(e) == <<"local", e>>
Sns(s) == <<"sns", s>>

NoInput ==
  [kind |-> "none", email |-> None, name |-> None, subject |-> None,
   flag |-> None]

Credentials(e, n) ==
  [NoInput EXCEPT !.kind = "signup", !.email = e, !.name = n]

Userinfo(s, e, f) ==
  [NoInput EXCEPT !.kind = "profile", !.subject = s, !.email = e, !.flag = f]

Identifier(n) == [NoInput EXCEPT !.kind = "lookup", !.name = n]

SignupInput == {Credentials(e, n) : e \in Emails, n \in Names}

(* The userinfo answer of a provider account: perhaps an e-mail, whose     *)
(* flag Naver leaves out; the text 'false' stands for every other value    *)
(* that means no.                                                          *)
ProfileInput ==
  {Userinfo(s, e, f) : s \in Subjects \ AtNaver, e \in Emails \cup {None},
                       f \in {"'false'", "true"}}
  \cup {Userinfo(s, e, None) : s \in AtNaver, e \in Emails \cup {None}}

LookupInput == {Identifier(n) : n \in Names}

(* What fetch_userinfo makes of the answer; Kakao's differs from Google's  *)
(* in the names of its fields.                                             *)
Boundary == INSTANCE Providers WITH Absent <- None

Profile(i) ==
  Boundary!Normalize(
    IF i.subject \in AtNaver THEN "naver" ELSE "google",
    [shape |-> "object", resultcode |-> None, inner |-> "object",
     uid |-> i.subject, email |-> i.email, flag |-> i.flag])

(* verified_email of callback. *)
Trusted(r) ==
  IF input[r].kind = "profile" /\ Profile(input[r]).verified
  THEN Profile(input[r]).email
  ELSE None

(* The row a request would insert: an SNS user has no username. *)
NewUser(r) ==
  [id |-> r,
   email |-> IF input[r].kind = "signup" THEN input[r].email ELSE Trusted(r),
   username |-> input[r].name]

Key(r) ==
  IF input[r].kind = "signup"
  THEN Local(input[r].email)
  ELSE Sns(input[r].subject)

(* Two rows a unique constraint keeps apart; NULLs never clash. *)
Clash(u, v) ==
  \/ u.email # None /\ u.email = v.email
  \/ u.username # None /\ u.username = v.username

(* Rows flushed by open transactions of others. *)
Drafts(r) == {draft[s] : s \in {q \in Requests \ {r} : draft[q] # NoUser}}

KnownKeys == {i.key : i \in identities}

Goto(r, label) == pc' = [pc EXCEPT ![r] = label]

(* An IntegrityError: signup answers 409, callback lets it through. *)
Violation(r) == IF input[r].kind = "signup" THEN "conflict" ELSE "integrity"

Init ==
  /\ users = {}
  /\ identities = {}
  /\ draft = [r \in Requests |-> NoUser]
  /\ input = [r \in Requests |-> NoInput]
  /\ owner = [r \in Requests |-> None]
  /\ pc = [r \in Requests |-> "idle"]

-----------------------------------------------------------------------------
(* Faulty variants of the helpers below, with one plausible bug each; no   *)
(* specification uses them, each breaks one of the properties.             *)

(* Flush without flush(): user.id is not assigned yet. *)
AddOnly(r) ==
  /\ draft' = [draft EXCEPT ![r] = NewUser(r)]
  /\ UNCHANGED <<users, owner>>

(* Flush by commit(). *)
CommitEarly(r) ==
  /\ users' = users \cup {NewUser(r)}
  /\ owner' = [owner EXCEPT ![r] = r]
  /\ UNCHANGED draft

(* Taken of a database that does not wait for the other transaction. *)
TakenOrDrafted(r) == \E u \in users \cup Drafts(r) : Clash(u, NewUser(r))

(* KeyFree without the unique constraint uq_provider_uid. *)
Unconstrained(r) == TRUE

-----------------------------------------------------------------------------
(* Arrival of a request. *)

Arrive(r, inputs, label) ==
  /\ pc[r] = "idle"
  /\ \E i \in inputs : input' = [input EXCEPT ![r] = i]
  /\ Goto(r, label)
  /\ UNCHANGED <<tables, draft, owner>>

Signup(r) == Arrive(r, SignupInput, "check")

Callback(r) == Arrive(r, ProfileInput, "find")

Lookup(r) == Arrive(r, LookupInput, "lookup")

-----------------------------------------------------------------------------
(* The SELECTs. *)

(* signup's pre-check on e-mail or username. *)
CheckTaken(r) ==
  /\ pc[r] = "check"
  /\ LET taken == {u \in users : \/ u.email = input[r].email
                                 \/ u.username = input[r].name}
     IN Goto(r, CASE taken = {} -> "insert"
                  [] Cardinality(taken) = 1 -> "conflict"
                  [] OTHER -> "ambiguous")
  /\ UNCHANGED <<tables, draft, input, owner>>

(* callback: a returning SNS user is known by (provider, uid) alone. *)
FindIdentity(r) ==
  /\ pc[r] = "find"
  /\ \/ /\ Key(r) \notin KnownKeys
        /\ Goto(r, "match")
        /\ UNCHANGED owner
     \/ \E i \in identities :
          /\ i.key = Key(r)
          /\ owner' = [owner EXCEPT ![r] = i.user]
          /\ Goto(r, "mint")
  /\ UNCHANGED <<tables, draft, input>>

(* callback: a verified e-mail links to the user who has it. *)
MatchEmail(r) ==
  /\ pc[r] = "match"
  /\ LET matching == {u \in users : Trusted(r) # None /\ u.email = Trusted(r)}
     IN \/ /\ matching = {}
           /\ Goto(r, "insert")
           /\ UNCHANGED owner
        \/ \E u \in matching :
             /\ owner' = [owner EXCEPT ![r] = u.id]
             /\ Goto(r, "commit")
  /\ UNCHANGED <<tables, draft, input>>

(* login and reset-request: one identifier is compared with e-mails and    *)
(* usernames.  Whether the user found is good for the request (login: the  *)
(* password fits; reset-request: there is an e-mail) is not modelled.      *)
LookUp(r) ==
  /\ pc[r] = "lookup"
  /\ LET found == {u \in users : input[r].name \in {u.email, u.username}}
     IN \/ /\ Cardinality(found) > 1
           /\ Goto(r, "ambiguous")
           /\ UNCHANGED owner
        \/ /\ Cardinality(found) <= 1
           /\ Goto(r, "invalid")
           /\ UNCHANGED owner
        \/ \E u \in found :
             /\ found = {u}
             /\ owner' = [owner EXCEPT ![r] = u.id]
             /\ Goto(r, "ok")
  /\ UNCHANGED <<tables, draft, input>>

-----------------------------------------------------------------------------
(* The INSERTs. *)

(* session.add(user) and flush(), which assigns user.id. *)
Flush(r) ==
  /\ draft' = [draft EXCEPT ![r] = NewUser(r)]
  /\ owner' = [owner EXCEPT ![r] = r]
  /\ UNCHANGED users

Taken(r) == \E u \in users : Clash(u, NewUser(r))

InsertUser(r) ==
  /\ pc[r] = "insert"
  /\ \A u \in users \cup Drafts(r) : ~Clash(u, NewUser(r))
  /\ Flush(r)
  /\ Goto(r, "commit")
  /\ UNCHANGED <<identities, input>>

UserTaken(r) ==
  /\ pc[r] = "insert"
  /\ Taken(r)
  /\ Goto(r, Violation(r))
  /\ UNCHANGED <<tables, draft, input, owner>>

KeyFree(r) == Key(r) \notin KnownKeys

(* The identity, and in a callback the one-time code for owner[r], are     *)
(* inserted, and everything commits.                                       *)
Commit(r) ==
  /\ pc[r] = "commit"
  /\ KeyFree(r)
  /\ users' = users \cup ({draft[r]} \ {NoUser})
  /\ identities' =
       identities \cup {[key |-> Key(r), user |-> owner[r], by |-> r]}
  /\ draft' = [draft EXCEPT ![r] = NoUser]
  /\ Goto(r, "ok")
  /\ UNCHANGED <<input, owner>>

IdentityTaken(r) ==
  /\ pc[r] = "commit"
  /\ ~KeyFree(r)
  /\ draft' = [draft EXCEPT ![r] = NoUser]
  /\ Goto(r, Violation(r))
  /\ UNCHANGED <<tables, input, owner>>

(* callback of a returning user: only the one-time code is inserted. *)
MintCode(r) ==
  /\ pc[r] = "mint"
  /\ Goto(r, "ok")
  /\ UNCHANGED <<tables, draft, input, owner>>

(* The process dies or the connection is lost: PostgreSQL rolls back. *)
Abort(r) ==
  /\ r \in Unreliable
  /\ pc[r] \in Running
  /\ draft' = [draft EXCEPT ![r] = NoUser]
  /\ Goto(r, "error")
  /\ UNCHANGED <<tables, input, owner>>

Terminating ==
  /\ \A r \in Requests : pc[r] \in Answered
  /\ UNCHANGED vars

Next ==
  \/ \E r \in Requests :
       \/ Signup(r)
       \/ Callback(r)
       \/ Lookup(r)
       \/ CheckTaken(r)
       \/ FindIdentity(r)
       \/ MatchEmail(r)
       \/ LookUp(r)
       \/ InsertUser(r)
       \/ UserTaken(r)
       \/ Commit(r)
       \/ IdentityTaken(r)
       \/ MintCode(r)
       \/ Abort(r)
  \/ Terminating

Spec == Init /\ [][Next]_vars

-----------------------------------------------------------------------------
(* Properties *)

(* The shape of the state. *)
TypeOK ==
  /\ users \subseteq UserRows
  /\ identities \subseteq
       [key : {Local(e) : e \in Emails} \cup {Sns(s) : s \in Subjects},
        user : Requests, by : Requests]
  /\ draft \in [Requests -> UserRows \cup {NoUser}]
  /\ input \in [Requests -> SignupInput \cup ProfileInput
                             \cup LookupInput \cup {NoInput}]
  /\ owner \in [Requests -> Requests \cup {None}]
  /\ pc \in [Requests -> Running \cup Answered \cup {"idle"}]

(* Accounts and identities come together: no crash and no lost race leaves *)
(* a user nobody can sign in to, or an identity of no user (the single     *)
(* commit after the flush in signup and callback).                         *)
NoOrphans ==
  /\ \A u \in users : \E i \in identities : i.user = u.id
  /\ \A i \in identities : \E u \in users : u.id = i.user

(* A provider account leads to one user for ever: whatever callbacks race  *)
(* to provision it, all the one-time codes minted for it are for the same  *)
(* user (uq_provider_uid and the lookup at the head of callback).          *)
OneUserPerSubject ==
  \A r, s \in Requests :
    /\ input[r].kind = "profile" /\ pc[r] = "ok"
    /\ input[s].kind = "profile" /\ pc[s] = "ok"
    /\ input[r].subject = input[s].subject
    => owner[r] = owner[s]

(* An account is joined only on the word of a provider that its e-mail    *)
(* address is verified: any identity somebody else's request attached to a *)
(* user came with that address and a flag that says yes, or from Naver,    *)
(* which sends no others; so a user without e-mail is never joined (#26 in *)
(* callback, and the "security gate" of _is_verified).                     *)
LinksAreTrusted ==
  \A i \in identities :
    i.by # i.user =>
      /\ \/ input[i.by].flag = "true"
         \/ input[i.by].subject \in AtNaver
      /\ \E u \in users : /\ u.id = i.user
                          /\ u.email # None
                          /\ u.email = input[i.by].email

(* A 409 tells the truth: somebody else does have the e-mail or the        *)
(* username, even when the answer comes from a lost race with a signup     *)
(* that might itself have failed (the except clause of signup).            *)
ConflictIsReal ==
  \A r \in Requests :
    pc[r] = "conflict" =>
      \E u \in users : /\ u.id # r
                       /\ \/ u.email = input[r].email
                          \/ u.username = input[r].name

(* A callback that lost a race finds its account when it is tried again:   *)
(* its 500 means that the identity, or a user with its verified e-mail, is *)
(* there now.                                                              *)
RetryWillFind ==
  \A r \in Requests :
    pc[r] = "integrity" =>
      \/ Key(r) \in KnownKeys
      \/ \E u \in users : Trusted(r) # None /\ u.email = Trusted(r)

(* Every request that looks a user up gets its answer: a signup with a     *)
(* taken e-mail or username 409 (auth_local.py: "Duplicate email or        *)
(* username -> 409"), a login 200 or 401 ("Same 401 for unknown user and   *)
(* bad password"), a reset-request 202.                                    *)
LookupDecides == \A r \in Requests : pc[r] # "ambiguous"

(* A callback with a verified e-mail that a user owns links to that user   *)
(* instead of failing on the unique constraint                             *)
(* (test_callback_existing_email_links_new_provider_no_500).               *)
VerifiedEmailLinks ==
  \A r \in Requests : \A u \in users :
    u.email # None /\ Trusted(r) = u.email => pc[r] # "integrity"

=============================================================================
