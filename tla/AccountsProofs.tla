-------------------------- MODULE AccountsProofs --------------------------
(* Theorems about Accounts, for any requests, addresses, usernames and     *)
(* provider accounts.                                                      *)
EXTENDS Accounts, FiniteSetTheorems, TLAPS

-----------------------------------------------------------------------------
(* The inputs. *)

(* What a request of each kind was sent. *)
LEMMA InputShape ==
  ASSUME TypeOK, NEW r \in Requests
  PROVE  /\ input[r].kind \in {"none", "signup", "profile", "lookup"}
         /\ input[r].kind = "signup" =>
              input[r].email \in Emails /\ input[r].name \in Names
         /\ input[r].kind = "profile" =>
              /\ input[r].subject \in Subjects
              /\ input[r].email \in Emails \cup {None}
              /\ input[r].name = None
              /\ \/ input[r].subject \in AtNaver
                 \/ input[r].flag \in {"'false'", "true"}
<1>1. CASE input[r] \in SignupInput
  <2>1. PICK e \in Emails, n \in Names : input[r] = Credentials(e, n)
    BY <1>1 DEF SignupInput
  <2> QED
    BY <2>1 DEF Credentials, NoInput
<1>2. CASE input[r] \in ProfileInput
  <2>1. PICK s \in Subjects, e \in Emails \cup {None},
             f \in {None, "'false'", "true"} :
          /\ input[r] = Userinfo(s, e, f)
          /\ s \in AtNaver \/ f \in {"'false'", "true"}
    BY <1>2, AccountsAssumption DEF ProfileInput
  <2> QED
    BY <2>1 DEF Userinfo, NoInput
<1>3. CASE input[r] \in LookupInput
  <2>1. PICK n \in Names : input[r] = Identifier(n)
    BY <1>3 DEF LookupInput
  <2> QED
    BY <2>1 DEF Identifier, NoInput
<1>4. CASE input[r] = NoInput
  BY <1>4 DEF NoInput
<1> QED
  BY <1>1, <1>2, <1>3, <1>4 DEF TypeOK

LEMMA InputKinds ==
  /\ \A i \in SignupInput : i.kind = "signup"
  /\ \A i \in ProfileInput : i.kind = "profile"
  /\ \A i \in LookupInput : i.kind = "lookup"
<1>1. ASSUME NEW e, NEW n PROVE Credentials(e, n).kind = "signup"
  BY DEF Credentials, NoInput
<1>2. ASSUME NEW s, NEW e, NEW f PROVE Userinfo(s, e, f).kind = "profile"
  BY DEF Userinfo, NoInput
<1>3. ASSUME NEW n PROVE Identifier(n).kind = "lookup"
  BY DEF Identifier, NoInput
<1> QED
  BY <1>1, <1>2, <1>3 DEF SignupInput, ProfileInput, LookupInput

(* An e-mail is trusted only from a callback whose provider vouches for it *)
(* (_normalize_userinfo and _is_verified).                                 *)
LEMMA TrustedWord ==
  ASSUME TypeOK, NEW r \in Requests
  PROVE  /\ Trusted(r) \in Emails \cup {None}
         /\ Trusted(r) # None =>
              /\ input[r].kind = "profile"
              /\ Trusted(r) = input[r].email
              /\ input[r].flag = "true" \/ input[r].subject \in AtNaver
<1>1. CASE input[r].kind # "profile"
  BY <1>1 DEF Trusted
<1>2. CASE input[r].kind = "profile" /\ input[r].subject \in AtNaver
  <2>1. Profile(input[r]).email = input[r].email
    BY <1>2, InputShape, AccountsAssumption
    DEF Profile, Boundary!Normalize, Boundary!Naver, Boundary!Profile
  <2> QED
    BY <1>2, <2>1, InputShape DEF Trusted
<1>3. CASE input[r].kind = "profile" /\ input[r].subject \notin AtNaver
  <2>1. /\ Profile(input[r]).email = input[r].email
        /\ Profile(input[r]).verified = (input[r].flag = "true")
    BY <1>3, InputShape, AccountsAssumption
    DEF Profile, Boundary!Normalize, Boundary!Google, Boundary!Flagged,
        Boundary!Profile, Boundary!IsVerified
  <2> QED
    BY <1>3, <2>1, InputShape DEF Trusted
<1> QED
  BY <1>1, <1>2, <1>3

(* What a request would insert. *)
LEMMA NewRow ==
  ASSUME TypeOK, NEW r \in Requests, input[r].kind \in {"signup", "profile"}
  PROVE  /\ NewUser(r) \in UserRows
         /\ NewUser(r) # NoUser
         /\ NewUser(r).id = r
         /\ Key(r) \in {Local(e) : e \in Emails} \cup {Sns(s) : s \in Subjects}
  BY InputShape, TrustedWord, AccountsAssumption
  DEF NewUser, NoUser, UserRows, Key

(* It depends on the input only. *)
LEMMA SameInput ==
  ASSUME NEW r \in Requests, input'[r] = input[r]
  PROVE  /\ Trusted(r)' = Trusted(r)
         /\ NewUser(r)' = NewUser(r)
         /\ Key(r)' = Key(r)
  BY DEF Trusted, NewUser, Key

-----------------------------------------------------------------------------
(* The inductive invariant. *)

(* The kind of a request at each of its labels. *)
Kinds ==
  \A r \in Requests :
    /\ pc[r] = "idle" => input[r].kind = "none"
    /\ pc[r] \in {"check", "conflict"} => input[r].kind = "signup"
    /\ pc[r] \in {"find", "match", "mint", "integrity"} =>
         input[r].kind = "profile"
    /\ pc[r] = "lookup" => input[r].kind = "lookup"
    /\ pc[r] \in {"insert", "commit"} =>
         input[r].kind \in {"signup", "profile"}

(* A user row is what the request it is named after inserted. *)
UsersMade ==
  \A u \in users : /\ pc[u.id] = "ok"
                   /\ input[u.id].kind \in {"signup", "profile"}
                   /\ u = NewUser(u.id)

(* A transaction about to commit has its own user row or links to the one  *)
(* that has its verified e-mail; no other transaction has a row to lose.   *)
Drafted ==
  \A r \in Requests :
    /\ draft[r] # NoUser => /\ pc[r] = "commit"
                            /\ owner[r] = r
                            /\ draft[r] = NewUser(r)
    /\ pc[r] = "commit" /\ draft[r] = NoUser =>
         /\ Trusted(r) # None
         /\ \E u \in users : u.id = owner[r] /\ u.email = Trusted(r)

(* An identity is what its request inserted, for its own user or for the   *)
(* one that has its verified e-mail; a key belongs to one identity.        *)
IdentitiesMade ==
  /\ \A i \in identities :
       /\ pc[i.by] = "ok"
       /\ input[i.by].kind \in {"signup", "profile"}
       /\ i.key = Key(i.by)
       /\ \E u \in users :
            /\ u.id = i.user
            /\ i.by # i.user => Trusted(i.by) # None /\ u.email = Trusted(i.by)
  /\ \A i, j \in identities : i.key = j.key => i = j

(* A callback that answers, or is about to, does so for the user of its    *)
(* identity.                                                               *)
Answers ==
  \A r \in Requests :
    pc[r] = "mint" \/ (pc[r] = "ok" /\ input[r].kind = "profile") =>
      \E i \in identities : i.key = Key(r) /\ i.user = owner[r]

IInv ==
  /\ TypeOK
  /\ Kinds
  /\ UsersMade
  /\ Drafted
  /\ IdentitiesMade
  /\ Answers
  /\ NoOrphans
  /\ ConflictIsReal
  /\ RetryWillFind

LEMMA InitIInv == Init => IInv
  BY DEF Init, IInv, TypeOK, Kinds, UsersMade, Drafted, IdentitiesMade,
         Answers, NoOrphans, ConflictIsReal, RetryWillFind, NoInput, KnownKeys

(* A step of r that writes no table, keeps the inputs and leaves r without *)
(* a draft has to account for where r goes, and for nothing else.          *)
LEMMA Reading ==
  ASSUME IInv, TypeOK', NEW r \in Requests, UNCHANGED <<tables, input>>,
         Goto(r, pc'[r]), pc[r] \in Running,
         \A q \in Requests \ {r} : /\ owner'[q] = owner[q]
                                   /\ draft'[q] = draft[q],
         draft'[r] = NoUser,
         Kinds',
         pc'[r] = "commit" =>
           /\ Trusted(r) # None
           /\ \E u \in users : u.id = owner'[r] /\ u.email = Trusted(r),
         pc'[r] = "mint" \/ (pc'[r] = "ok" /\ input[r].kind = "profile") =>
           \E i \in identities : i.key = Key(r) /\ i.user = owner'[r],
         pc'[r] = "conflict" =>
           \E u \in users : \/ u.email = input[r].email
                            \/ u.username = input[r].name,
         pc'[r] = "integrity" =>
           \/ Key(r) \in KnownKeys
           \/ \E u \in users : Trusted(r) # None /\ u.email = Trusted(r)
  PROVE  IInv'
<1> USE DEF tables
<1>1. \A q \in Requests : /\ Trusted(q)' = Trusted(q)
                          /\ NewUser(q)' = NewUser(q)
                          /\ Key(q)' = Key(q)
  BY SameInput
<1>2. \A q \in Requests \ {r} : pc'[q] = pc[q]
  BY DEF Goto, IInv, TypeOK
<1>3. \A u \in users : u.id \in Requests \ {r}
  BY DEF IInv, TypeOK, UserRows, UsersMade, Running
<1>4. \A i \in identities : i.by \in Requests \ {r}
  BY DEF IInv, TypeOK, IdentitiesMade, Running
<1>5. UsersMade'
  BY <1>1, <1>2, <1>3 DEF IInv, UsersMade
<1>6. Drafted'
  BY <1>1, <1>2 DEF IInv, Drafted
<1>7. IdentitiesMade'
  BY <1>1, <1>2, <1>4 DEF IInv, IdentitiesMade
<1>8. Answers'
  BY <1>1, <1>2 DEF IInv, Answers
<1>9. NoOrphans'
  BY DEF IInv, NoOrphans
<1>10. ConflictIsReal'
  BY <1>2, <1>3 DEF IInv, ConflictIsReal
<1>11. RetryWillFind'
  BY <1>1, <1>2 DEF IInv, RetryWillFind, KnownKeys
<1> QED
  BY <1>5, <1>6, <1>7, <1>8, <1>9, <1>10, <1>11 DEF IInv

LEMMA NextIInv == IInv /\ [Next]_vars => IInv'
<1> SUFFICES ASSUME IInv, [Next]_vars PROVE IInv'
  OBVIOUS
<1> USE AccountsAssumption
<1>1. ASSUME NEW r \in Requests, NEW inputs, NEW label,
             \/ inputs = SignupInput /\ label = "check"
             \/ inputs = ProfileInput /\ label = "find"
             \/ inputs = LookupInput /\ label = "lookup",
             Arrive(r, inputs, label)
      PROVE  IInv'
  <2>1. PICK sent \in SignupInput \cup ProfileInput \cup LookupInput :
          /\ input' = [input EXCEPT ![r] = sent]
          /\ sent \in inputs
    BY <1>1 DEF Arrive
  <2>2. /\ pc[r] = "idle" /\ pc' = [pc EXCEPT ![r] = label]
        /\ UNCHANGED <<users, identities, draft, owner>>
        /\ label \in {"check", "find", "lookup"}
    BY <1>1 DEF Arrive, Goto, tables
  <2>3. TypeOK'
    BY <2>1, <2>2 DEF IInv, TypeOK, Running
  <2>4. \A q \in Requests \ {r} : /\ pc'[q] = pc[q]
                                  /\ input'[q] = input[q]
                                  /\ Trusted(q)' = Trusted(q)
                                  /\ NewUser(q)' = NewUser(q)
                                  /\ Key(q)' = Key(q)
    BY <2>1, <2>2, SameInput DEF IInv, TypeOK
  <2>5. Kinds'
    <3>1. /\ label = "check" => input'[r].kind = "signup"
          /\ label = "find" => input'[r].kind = "profile"
          /\ label = "lookup" => input'[r].kind = "lookup"
      BY <1>1, <2>1, InputKinds DEF IInv, TypeOK
    <3> QED
      BY <2>2, <2>4, <3>1 DEF IInv, TypeOK, Kinds
  <2>6. pc'[r] = label
    BY <2>2 DEF IInv, TypeOK
  <2>7. \A u \in users : u.id \in Requests \ {r}
    BY <2>2 DEF IInv, TypeOK, UserRows, UsersMade
  <2>8. \A i \in identities : i.by \in Requests \ {r}
    BY <2>2 DEF IInv, TypeOK, IdentitiesMade
  <2>9. UsersMade'
    BY <2>2, <2>4, <2>7 DEF IInv, UsersMade
  <2>10. draft[r] = NoUser
    BY <2>2 DEF IInv, Drafted
  <2>11. Drafted'
    BY <2>2, <2>4, <2>6, <2>10 DEF IInv, Drafted
  <2>12. IdentitiesMade'
    BY <2>2, <2>4, <2>8 DEF IInv, IdentitiesMade
  <2>13. Answers' /\ NoOrphans'
    BY <2>2, <2>4, <2>6 DEF IInv, Answers, NoOrphans
  <2>14. ConflictIsReal' /\ RetryWillFind'
    BY <2>2, <2>4, <2>6 DEF IInv, ConflictIsReal, RetryWillFind, KnownKeys
  <2> QED
    BY <2>3, <2>5, <2>9, <2>11, <2>12, <2>13, <2>14 DEF IInv
<1>2. ASSUME NEW r \in Requests, CheckTaken(r) PROVE IInv'
  <2> DEFINE taken == {u \in users : \/ u.email = input[r].email
                                     \/ u.username = input[r].name}
  <2>1. /\ pc[r] = "check"
        /\ UNCHANGED <<tables, draft, input, owner>>
        /\ \E label \in {"insert", "conflict", "ambiguous"} :
             Goto(r, label) /\ (label = "conflict" => taken # {})
    <3>1. CASE taken = {}
      BY <1>2, <3>1, FS_EmptySet DEF CheckTaken
    <3>2. CASE taken # {} /\ Cardinality(taken) = 1
      BY <1>2, <3>2 DEF CheckTaken
    <3>3. CASE taken # {} /\ Cardinality(taken) # 1
      BY <1>2, <3>3 DEF CheckTaken
    <3> QED
      BY <3>1, <3>2, <3>3
  <2>2. /\ pc'[r] \in {"insert", "conflict", "ambiguous"}
        /\ Goto(r, pc'[r])
        /\ pc'[r] = "conflict" => taken # {}
    BY <2>1 DEF Goto, IInv, TypeOK
  <2>3. TypeOK' /\ Kinds'
    BY <2>1, <2>2
    DEF IInv, TypeOK, Kinds, tables, Goto, Running, Answered
  <2> QED
    BY <2>1, <2>2, <2>3, Reading DEF IInv, Drafted, Running
<1>3. ASSUME NEW r \in Requests, FindIdentity(r) PROVE IInv'
  <2>1. /\ pc[r] = "find"
        /\ UNCHANGED <<tables, draft, input>>
        /\ pc'[r] \in {"match", "mint"} /\ Goto(r, pc'[r])
        /\ \/ pc'[r] = "match" /\ owner' = owner
           \/ \E i \in identities : /\ i.key = Key(r)
                                    /\ owner' = [owner EXCEPT ![r] = i.user]
    BY <1>3 DEF FindIdentity, Goto, IInv, TypeOK
  <2>2. TypeOK' /\ Kinds'
    BY <2>1 DEF IInv, TypeOK, Kinds, tables, Goto, Running, Answered
  <2>3. /\ \A q \in Requests \ {r} : owner'[q] = owner[q]
        /\ pc'[r] = "mint" =>
             \E i \in identities : i.key = Key(r) /\ i.user = owner'[r]
    BY <1>3, <2>1 DEF FindIdentity, Goto, IInv, TypeOK
  <2> QED
    BY <2>1, <2>2, <2>3, Reading DEF IInv, Drafted, Running
<1>4. ASSUME NEW r \in Requests, MatchEmail(r) PROVE IInv'
  <2>1. /\ pc[r] = "match"
        /\ UNCHANGED <<tables, draft, input>>
        /\ pc'[r] \in {"insert", "commit"} /\ Goto(r, pc'[r])
        /\ \/ pc'[r] = "insert" /\ owner' = owner
           \/ \E u \in users : /\ Trusted(r) # None
                               /\ u.email = Trusted(r)
                               /\ owner' = [owner EXCEPT ![r] = u.id]
    BY <1>4 DEF MatchEmail, Goto, IInv, TypeOK
  <2>2. TypeOK' /\ Kinds'
    BY <2>1
    DEF IInv, TypeOK, Kinds, UserRows, tables, Goto, Running, Answered
  <2>3. /\ \A q \in Requests \ {r} : owner'[q] = owner[q]
        /\ pc'[r] = "commit" =>
             /\ Trusted(r) # None
             /\ \E u \in users : u.id = owner'[r] /\ u.email = Trusted(r)
    BY <2>1 DEF IInv, TypeOK
  <2> QED
    BY <2>1, <2>2, <2>3, Reading DEF IInv, Drafted, Running
<1>5. ASSUME NEW r \in Requests, LookUp(r) PROVE IInv'
  <2>1. /\ pc[r] = "lookup"
        /\ UNCHANGED <<tables, draft, input>>
        /\ pc'[r] \in {"ambiguous", "invalid", "ok"} /\ Goto(r, pc'[r])
        /\ \/ owner' = owner
           \/ \E u \in users : owner' = [owner EXCEPT ![r] = u.id]
    BY <1>5 DEF LookUp, Goto, IInv, TypeOK
  <2>2. TypeOK' /\ Kinds'
    BY <2>1
    DEF IInv, TypeOK, Kinds, UserRows, tables, Goto, Running, Answered
  <2>3. \A q \in Requests \ {r} : owner'[q] = owner[q]
    BY <2>1 DEF IInv, TypeOK
  <2> QED
    BY <2>1, <2>2, <2>3, Reading DEF IInv, Kinds, Drafted, Running
<1>6. ASSUME NEW r \in Requests, UserTaken(r) PROVE IInv'
  <2>1. /\ pc[r] = "insert"
        /\ UNCHANGED <<tables, draft, input, owner>>
        /\ pc'[r] = Violation(r) /\ Goto(r, pc'[r])
    BY <1>6 DEF UserTaken, Goto, IInv, TypeOK
  <2>2. TypeOK' /\ Kinds'
    BY <2>1
    DEF IInv, TypeOK, Kinds, Violation, tables, Goto, Running, Answered
  <2>3. PICK u \in users : Clash(u, NewUser(r))
    BY <1>6 DEF UserTaken, Taken
  <2>4. CASE input[r].kind = "signup"
    \* the row in the way has the e-mail or the username
    <3>1. u.email = input[r].email \/ u.username = input[r].name
      BY <2>3, <2>4 DEF Clash, NewUser
    <3> QED
      BY <2>1, <2>2, <2>4, <3>1, Reading
      DEF IInv, Drafted, Running, Violation
  <2>5. CASE input[r].kind = "profile"
    \* without a username, the new row can only clash by its e-mail
    <3>1. Trusted(r) # None /\ u.email = Trusted(r)
      BY <2>3, <2>5, InputShape DEF Clash, NewUser, IInv
    <3> QED
      BY <2>1, <2>2, <2>5, <3>1, Reading
      DEF IInv, Drafted, Running, Violation
  <2> QED
    BY <2>1, <2>4, <2>5 DEF IInv, Kinds
<1>7. ASSUME NEW r \in Requests, MintCode(r) PROVE IInv'
  <2>1. TypeOK' /\ Kinds'
    BY <1>7
    DEF MintCode, IInv, TypeOK, Kinds, tables, Goto, Running, Answered
  <2>2. pc'[r] = "ok" /\ Goto(r, pc'[r])
    BY <1>7 DEF MintCode, Goto, IInv, TypeOK
  <2> QED
    BY <1>7, <2>1, <2>2, Reading
    DEF MintCode, IInv, Drafted, Answers, Running
<1>8. ASSUME NEW r \in Requests, InsertUser(r) PROVE IInv'
  <2>1. /\ pc[r] = "insert" /\ input[r].kind \in {"signup", "profile"}
        /\ UNCHANGED <<users, identities, input>>
        /\ draft' = [draft EXCEPT ![r] = NewUser(r)]
        /\ owner' = [owner EXCEPT ![r] = r]
        /\ pc' = [pc EXCEPT ![r] = "commit"]
    BY <1>8 DEF InsertUser, Flush, Goto, IInv, Kinds
  <2>2. /\ NewUser(r) \in UserRows /\ NewUser(r) # NoUser
        /\ NewUser(r).id = r
    BY <2>1, NewRow DEF IInv
  <2>3. \A q \in Requests : /\ Trusted(q)' = Trusted(q)
                            /\ NewUser(q)' = NewUser(q)
                            /\ Key(q)' = Key(q)
    BY <2>1, SameInput
  <2>4. TypeOK' /\ Kinds'
    BY <2>1, <2>2 DEF IInv, TypeOK, Kinds, Running
  <2>5. UsersMade' /\ IdentitiesMade'
    BY <2>1, <2>3
    DEF IInv, TypeOK, UserRows, UsersMade, IdentitiesMade
  <2>6. Drafted'
    BY <2>1, <2>2, <2>3 DEF IInv, TypeOK, Drafted
  <2>7. Answers' /\ NoOrphans'
    BY <2>1, <2>3 DEF IInv, TypeOK, Answers, NoOrphans
  <2>8. ConflictIsReal' /\ RetryWillFind'
    BY <2>1, <2>3
    DEF IInv, TypeOK, ConflictIsReal, RetryWillFind, KnownKeys
  <2> QED
    BY <2>4, <2>5, <2>6, <2>7, <2>8 DEF IInv
<1>9. ASSUME NEW r \in Requests, Commit(r) PROVE IInv'
  <2> DEFINE new == [key |-> Key(r), user |-> owner[r], by |-> r]
  <2>1. /\ pc[r] = "commit" /\ input[r].kind \in {"signup", "profile"}
        /\ Key(r) \notin KnownKeys
        /\ users' = users \cup ({draft[r]} \ {NoUser})
        /\ identities' = identities \cup {new}
        /\ draft' = [draft EXCEPT ![r] = NoUser]
        /\ pc' = [pc EXCEPT ![r] = "ok"]
        /\ UNCHANGED <<input, owner>>
    BY <1>9 DEF Commit, KeyFree, Goto, IInv, Kinds
  <2>2. /\ NewUser(r) \in UserRows /\ NewUser(r) # NoUser
        /\ NewUser(r).id = r
        /\ Key(r) \in
             {Local(e) : e \in Emails} \cup {Sns(s) : s \in Subjects}
    BY <2>1, NewRow DEF IInv
  <2>3. \A q \in Requests : /\ Trusted(q)' = Trusted(q)
                            /\ NewUser(q)' = NewUser(q)
                            /\ Key(q)' = Key(q)
    BY <2>1, SameInput
  \* the user the identity is for: r's own, or the one it links to
  <2>4. \/ owner[r] = r /\ users' = users \cup {NewUser(r)}
        \/ /\ users' = users
           /\ Trusted(r) # None
           /\ \E u \in users : u.id = owner[r] /\ u.email = Trusted(r)
    BY <2>1, <2>2 DEF IInv, Drafted
  <2>5. \E u \in users' :
          /\ u.id = owner[r]
          /\ r # owner[r] => Trusted(r) # None /\ u.email = Trusted(r)
    BY <2>2, <2>4
  <2>6. users \subseteq users' /\ owner[r] \in Requests
    BY <2>4 DEF IInv, TypeOK, UserRows
  <2>7. TypeOK'
    BY <2>1, <2>2, <2>4, <2>6 DEF IInv, TypeOK, Answered
  <2>8. Kinds' /\ Drafted'
    BY <2>1, <2>3, <2>6 DEF IInv, TypeOK, Kinds, Drafted
  <2>9. UsersMade'
    BY <2>1, <2>2, <2>3, <2>4 DEF IInv, TypeOK, UserRows, UsersMade
  <2>10. IdentitiesMade'
    <3>1. \A i \in identities : i.key # Key(r) /\ i.by # r
      BY <2>1 DEF KnownKeys, IInv, IdentitiesMade
    <3>2. ASSUME NEW i \in identities'
          PROVE  (/\ pc[i.by] = "ok"
                  /\ input[i.by].kind \in {"signup", "profile"}
                  /\ i.key = Key(i.by)
                  /\ \E u \in users :
                       /\ u.id = i.user
                       /\ i.by # i.user =>
                            /\ Trusted(i.by) # None
                            /\ u.email = Trusted(i.by))'
      <4>1. CASE i \in identities
        BY <2>1, <2>3, <2>6, <3>1, <4>1 DEF IInv, TypeOK, IdentitiesMade
      <4>2. CASE i = new
        BY <2>1, <2>3, <2>5, <4>2 DEF IInv, TypeOK
      <4> QED
        BY <2>1, <4>1, <4>2
    <3>3. \A i, j \in identities' : i.key = j.key => i = j
      BY <2>1, <3>1 DEF IInv, IdentitiesMade
    <3> QED
      BY <3>2, <3>3 DEF IdentitiesMade
  <2>11. Answers'
    <3>1. new \in identities' /\ new.key = Key(r) /\ new.user = owner'[r]
      BY <2>1
    <3>2. \A q \in Requests \ {r} : pc'[q] = pc[q]
      BY <2>1 DEF IInv, TypeOK
    <3>3. identities \subseteq identities'
      BY <2>1
    <3> HIDE DEF new
    <3> QED
      BY <2>1, <2>3, <3>1, <3>2, <3>3 DEF IInv, Answers
  <2>12. NoOrphans'
    <3>1. new \in identities' /\ new.user = owner[r]
      BY <2>1
    <3>2. /\ identities \subseteq identities'
          /\ \A i \in identities' : i \in identities \/ i = new
      BY <2>1
    <3>3. \A u \in users' : u \in users \/ u.id = owner[r]
      BY <2>2, <2>4
    <3> HIDE DEF new
    <3> QED
      BY <2>5, <2>6, <3>1, <3>2, <3>3 DEF IInv, NoOrphans
  <2>13. ConflictIsReal'
    BY <2>1, <2>6 DEF IInv, TypeOK, ConflictIsReal
  <2>14. RetryWillFind'
    BY <2>1, <2>3, <2>6 DEF IInv, TypeOK, RetryWillFind, KnownKeys
  <2> QED
    BY <2>7, <2>8, <2>9, <2>10, <2>11, <2>12, <2>13, <2>14 DEF IInv
<1>10. ASSUME NEW r \in Requests, IdentityTaken(r) PROVE IInv'
  <2>1. /\ pc[r] = "commit"
        /\ UNCHANGED <<tables, input, owner>>
        /\ draft' = [draft EXCEPT ![r] = NoUser]
        /\ pc'[r] = Violation(r) /\ Goto(r, pc'[r])
    BY <1>10 DEF IdentityTaken, Goto, IInv, TypeOK
  <2>2. TypeOK' /\ Kinds'
    BY <2>1
    DEF IInv, TypeOK, Kinds, Violation, tables, Goto, Running, Answered
  <2>3. PICK i \in identities : i.key = Key(r)
    BY <1>10 DEF IdentityTaken, KeyFree, KnownKeys
  <2>4. CASE input[r].kind = "signup"
    \* the key is an e-mail, so the identity is that of another signup
    <3>1. i.by \in Requests /\ i.key = Key(i.by)
      BY DEF IInv, TypeOK, IdentitiesMade
    <3>2. /\ input[i.by].kind = "signup"
          /\ input[i.by].email = input[r].email
      BY <2>3, <2>4, <3>1 DEF Key, Local, Sns, IInv, IdentitiesMade
    <3>3. Trusted(i.by) = None
      BY <3>2 DEF Trusted
    <3>4. PICK u \in users : u.id = i.by
      BY <3>3 DEF IInv, IdentitiesMade
    <3>5. u.email = input[r].email
      BY <3>2, <3>4 DEF IInv, UsersMade, NewUser
    <3> QED
      BY <2>1, <2>2, <2>4, <3>5, Reading
      DEF IInv, TypeOK, Running, Violation
  <2>5. CASE input[r].kind = "profile"
    BY <2>1, <2>2, <2>3, <2>5, Reading
    DEF IInv, TypeOK, Running, Violation, KnownKeys
  <2> QED
    BY <2>1, <2>4, <2>5 DEF IInv, Kinds
<1>11. ASSUME NEW r \in Requests, Abort(r) PROVE IInv'
  <2>1. /\ pc[r] \in Running
        /\ UNCHANGED <<tables, input, owner>>
        /\ draft' = [draft EXCEPT ![r] = NoUser]
        /\ pc'[r] = "error" /\ Goto(r, pc'[r])
    BY <1>11 DEF Abort, Goto, IInv, TypeOK
  <2>2. TypeOK' /\ Kinds'
    BY <2>1 DEF IInv, TypeOK, Kinds, tables, Goto, Answered
  <2> QED
    BY <2>1, <2>2, Reading DEF IInv, TypeOK
<1>12. CASE UNCHANGED vars \/ Terminating
  <2>1. UNCHANGED <<users, identities, draft, input, owner, pc>>
    BY <1>12 DEF vars, tables, Terminating
  <2>2. \A q \in Requests : /\ Trusted(q)' = Trusted(q)
                            /\ NewUser(q)' = NewUser(q)
                            /\ Key(q)' = Key(q)
    BY <2>1, SameInput
  <2>3. TypeOK' /\ Kinds'
    BY <2>1 DEF IInv, TypeOK, Kinds
  <2>4. UsersMade' /\ Drafted' /\ IdentitiesMade'
    BY <2>1, <2>2
    DEF IInv, TypeOK, UserRows, UsersMade, Drafted, IdentitiesMade
  <2>5. Answers' /\ NoOrphans' /\ ConflictIsReal' /\ RetryWillFind'
    BY <2>1, <2>2
    DEF IInv, Answers, NoOrphans, ConflictIsReal, RetryWillFind, KnownKeys
  <2> QED
    BY <2>3, <2>4, <2>5 DEF IInv
<1> QED
  BY <1>1, <1>2, <1>3, <1>4, <1>5, <1>6, <1>7, <1>8, <1>9, <1>10, <1>11,
     <1>12
  DEF Next, Signup, Callback, Lookup

LEMMA Invariance == Spec => []IInv
  BY InitIInv, NextIInv, PTL DEF Spec

-----------------------------------------------------------------------------

(* The tables keep their shape. *)
THEOREM TypeCorrect == Spec => []TypeOK
  BY Invariance, PTL DEF IInv

(* Users and identities come and stay together, whatever crashes or loses  *)
(* a race.                                                                 *)
THEOREM Together == Spec => []NoOrphans
  BY Invariance, PTL DEF IInv

(* All codes for one provider account are for one user.                    *)
THEOREM SubjectsStay == Spec => []OneUserPerSubject
<1>1. IInv => OneUserPerSubject
  BY DEF IInv, Answers, IdentitiesMade, OneUserPerSubject, Key
<1> QED
  BY <1>1, Invariance, PTL

(* A request joins another one's account only on a provider's word that it *)
(* owns the e-mail address of that account.                                *)
THEOREM JoinedOnTrust == Spec => []LinksAreTrusted
<1>1. IInv => LinksAreTrusted
  <2> SUFFICES ASSUME IInv, NEW i \in identities, i.by # i.user
               PROVE  /\ \/ input[i.by].flag = "true"
                         \/ input[i.by].subject \in AtNaver
                      /\ \E u \in users : /\ u.id = i.user
                                          /\ u.email # None
                                          /\ u.email = input[i.by].email
    BY DEF LinksAreTrusted
  <2>1. i.by \in Requests
    BY DEF IInv, TypeOK
  <2>2. PICK u \in users : /\ u.id = i.user
                           /\ Trusted(i.by) # None
                           /\ u.email = Trusted(i.by)
    BY DEF IInv, IdentitiesMade
  <2> QED
    BY <2>1, <2>2, TrustedWord DEF IInv
<1> QED
  BY <1>1, Invariance, PTL

(* Whoever is answered 409 was beaten by a user that exists. *)
THEOREM ConflictsAreReal == Spec => []ConflictIsReal
  BY Invariance, PTL DEF IInv

(* The 500 of a callback that lost a race does not come twice. *)
THEOREM RetriesFind == Spec => []RetryWillFind
  BY Invariance, PTL DEF IInv

=============================================================================
