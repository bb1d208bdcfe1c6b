---------------------------- MODULE SchemaProofs ----------------------------
(* Theorems about Schema, for any number of runs and failures. *)
EXTENDS Schema, TLAPS

-----------------------------------------------------------------------------
(* The revisions, spelled out. *)

LEMMA Scripts ==
  /\ Len(Upgrade[1]) = 5 /\ Len(Upgrade[2]) = 2 /\ Len(Upgrade[3]) = 1
  /\ Len(Downgrade[1]) = 5 /\ Len(Downgrade[2]) = 2 /\ Len(Downgrade[3]) = 1
  /\ Upgrade[1][1] = "users"
  /\ Upgrade[1][2] = "auth_identities"
  /\ Upgrade[1][3] = "password_resets"
  /\ Upgrade[1][4] = "refresh_tokens"
  /\ Upgrade[1][5] = ChainIndex
  /\ Upgrade[2][1] = "oauth_states"
  /\ Upgrade[2][2] = "oauth_codes"
  /\ Upgrade[3][1] = NullEmail
  /\ Downgrade[1][1] = ChainIndex
  /\ Downgrade[1][2] = "refresh_tokens"
  /\ Downgrade[1][3] = "password_resets"
  /\ Downgrade[1][4] = "auth_identities"
  /\ Downgrade[1][5] = "users"
  /\ Downgrade[2][1] = "oauth_codes"
  /\ Downgrade[2][2] = "oauth_states"
  /\ Downgrade[3][1] = NullEmail
  BY DEF Upgrade, Downgrade, NullEmail, ChainIndex

LEMMA Making ==
  /\ MadeIn(1) = {ChainIndex} \cup (Tables \ {"oauth_states", "oauth_codes"})
  /\ MadeIn(2) = {"oauth_states", "oauth_codes"}
  /\ MadeIn(3) = {NullEmail}
<1>1. DOMAIN Upgrade[1] = 1..5 /\ DOMAIN Upgrade[2] = 1..2 /\ DOMAIN Upgrade[3] = 1..1
  BY DEF Upgrade
<1>2. 1..5 = {1, 2, 3, 4, 5} /\ 1..2 = {1, 2} /\ 1..1 = {1}
  OBVIOUS
<1>3. MadeIn(1) = {Upgrade[1][1], Upgrade[1][2], Upgrade[1][3], Upgrade[1][4],
                   Upgrade[1][5]}
  BY <1>1, <1>2 DEF MadeIn
<1>4. MadeIn(2) = {Upgrade[2][1], Upgrade[2][2]}
  BY <1>1, <1>2 DEF MadeIn
<1>5. MadeIn(3) = {Upgrade[3][1]}
  BY <1>1, <1>2 DEF MadeIn
<1> QED
  BY <1>3, <1>4, <1>5, Scripts DEF Tables, NullEmail

LEMMA Versioning ==
  /\ SchemaOf(0) = {}
  /\ SchemaOf(1) = {ChainIndex} \cup (Tables \ {"oauth_states", "oauth_codes"})
  /\ SchemaOf(2) = {ChainIndex} \cup Tables
  /\ SchemaOf(3) = Objects
<1>1. 1..0 = {} /\ 1..1 = {1} /\ 1..2 = {1, 2} /\ 1..3 = {1, 2, 3}
  OBVIOUS
<1>2. SchemaOf(1) = MadeIn(1)
  BY <1>1 DEF SchemaOf
<1>3. SchemaOf(2) = MadeIn(1) \cup MadeIn(2)
  BY <1>1 DEF SchemaOf
<1>4. SchemaOf(3) = MadeIn(1) \cup MadeIn(2) \cup MadeIn(3)
  BY <1>1 DEF SchemaOf
<1> QED
  BY <1>1, <1>2, <1>3, <1>4, Making DEF SchemaOf, Tables, Objects

(* No two objects are the same. *)
LEMMA Distinct ==
  /\ ChainIndex \notin Tables /\ NullEmail \notin Tables
  /\ VersionTable \notin Tables /\ ChainIndex # NullEmail
  /\ Tables \subseteq Objects /\ NullEmail \in Objects /\ ChainIndex \in Objects
  /\ \A x \in Objects : x \in Tables \/ x = ChainIndex \/ x = NullEmail
  BY DEF Tables, Objects, NullEmail, ChainIndex, VersionTable

(* Where a statement begins to lock, and where it goes on. *)
LEMMA Locking ==
  /\ \A x : References(x) \subseteq {"users"}
  /\ \A x : References(x) # {} =>
         /\ References(x) = {"users"} /\ x \in Tables /\ Subject(x) = x
         /\ x # "users" /\ x # "oauth_states"
  /\ \A x \in Tables : x \notin {"users", "oauth_states"} => References(x) = {"users"}
  /\ References("users") = {} /\ References("oauth_states") = {}
  /\ References(NullEmail) = {} /\ References(ChainIndex) = {}
  /\ \A x \in Tables : Subject(x) = x
  /\ Subject(NullEmail) = "users" /\ Subject(ChainIndex) = "refresh_tokens"
  /\ \A x \in Objects : Subject(x) \in Tables
  /\ "users" \in Tables
<1>1. /\ \A x \in Tables : Subject(x) = x
      /\ Subject(NullEmail) = "users" /\ Subject(ChainIndex) = "refresh_tokens"
  BY Distinct DEF Subject
<1>2. "users" \in Tables /\ "refresh_tokens" \in Tables
  BY DEF Tables
<1>3. /\ \A x : References(x) \subseteq {"users"}
      /\ \A x : References(x) # {} =>
             /\ References(x) = {"users"} /\ x \in Tables
             /\ x # "users" /\ x # "oauth_states"
      /\ \A x \in Tables : x \notin {"users", "oauth_states"} => References(x) = {"users"}
      /\ References("users") = {} /\ References("oauth_states") = {}
      /\ References(NullEmail) = {} /\ References(ChainIndex) = {}
  BY Distinct DEF References
<1> QED
  BY <1>1, <1>2, <1>3, Distinct

LEMMA Lengths ==
  /\ Len(Upgrade[1]) = 5 /\ Len(Upgrade[2]) = 2 /\ Len(Upgrade[3]) = 1
  /\ Len(Downgrade[1]) = 5 /\ Len(Downgrade[2]) = 2 /\ Len(Downgrade[3]) = 1
  BY Scripts

(* The objects of the first k statements of a script. *)
First(s, k) == {s[j] : j \in 1..k}

LEMMA Firsts ==
  ASSUME NEW s
  PROVE  /\ First(s, 0) = {}
         /\ First(s, 1) = {s[1]}
         /\ First(s, 2) = {s[1], s[2]}
         /\ First(s, 3) = {s[1], s[2], s[3]}
         /\ First(s, 4) = {s[1], s[2], s[3], s[4]}
         /\ First(s, 5) = {s[1], s[2], s[3], s[4], s[5]}
<1>1. 1..0 = {} /\ 1..1 = {1} /\ 1..2 = {1, 2} /\ 1..3 = {1, 2, 3}
        /\ 1..4 = {1, 2, 3, 4} /\ 1..5 = {1, 2, 3, 4, 5}
  OBVIOUS
<1> QED
  BY <1>1 DEF First

LEMMA Prefixes ==
  /\ First(Upgrade[1], 0) = {}
  /\ First(Upgrade[1], 1) = {"users"}
  /\ First(Upgrade[1], 2) = {"users", "auth_identities"}
  /\ First(Upgrade[1], 3) = {"users", "auth_identities", "password_resets"}
  /\ First(Upgrade[1], 4)
       = {"users", "auth_identities", "password_resets", "refresh_tokens"}
  /\ First(Upgrade[2], 0) = {}
  /\ First(Upgrade[2], 1) = {"oauth_states"}
  /\ First(Upgrade[3], 0) = {}
  /\ First(Downgrade[1], 0) = {}
  /\ First(Downgrade[1], 1) = {ChainIndex}
  /\ First(Downgrade[1], 2) = {ChainIndex, "refresh_tokens"}
  /\ First(Downgrade[1], 3) = {ChainIndex, "refresh_tokens", "password_resets"}
  /\ First(Downgrade[1], 4)
       = {ChainIndex, "refresh_tokens", "password_resets", "auth_identities"}
  /\ First(Downgrade[2], 0) = {}
  /\ First(Downgrade[2], 1) = {"oauth_codes"}
  /\ First(Downgrade[3], 0) = {}
  BY Firsts, Scripts

LEMMA FirstGrows ==
  ASSUME NEW s, NEW k \in Nat
  PROVE  First(s, k + 1) = First(s, k) \cup {s[k + 1]}
  BY DEF First

(* A whole revision makes, or drops, what its version adds to the last.    *)
LEMMA Revisions ==
  ASSUME NEW r \in 1..3
  PROVE  /\ Len(Upgrade[r]) \in Nat /\ Len(Downgrade[r]) \in Nat
         /\ First(Upgrade[r], Len(Upgrade[r])) = SchemaOf(r) \ SchemaOf(r - 1)
         /\ First(Downgrade[r], Len(Downgrade[r]))
              = SchemaOf(r) \ SchemaOf(r - 1)
         /\ SchemaOf(r - 1) \subseteq SchemaOf(r)
<1>1. CASE r = 1
  <2>1. /\ First(Upgrade[1], 5) = {ChainIndex} \cup (Tables \ {"oauth_states", "oauth_codes"})
        /\ First(Downgrade[1], 5) = {ChainIndex} \cup (Tables \ {"oauth_states", "oauth_codes"})
    BY Firsts, Scripts DEF Tables
  <2> QED
    BY <1>1, <2>1, Scripts, Versioning
<1>2. CASE r = 2
  <2>1. /\ First(Upgrade[2], 2) = {"oauth_states", "oauth_codes"}
        /\ First(Downgrade[2], 2) = {"oauth_states", "oauth_codes"}
    BY Firsts, Scripts
  <2> QED
    BY <1>2, <2>1, Scripts, Versioning, Distinct DEF Tables
<1>3. CASE r = 3
  <2>1. First(Upgrade[3], 1) = {NullEmail} /\ First(Downgrade[3], 1) = {NullEmail}
    BY Firsts, Scripts
  <2> QED
    <3>1. Objects \ ({ChainIndex} \cup Tables) = {NullEmail}
            /\ {ChainIndex} \cup Tables \subseteq Objects
      BY DEF Tables, Objects, NullEmail, ChainIndex
    <3> QED
      BY <1>3, <2>1, <3>1, Scripts, Versioning
<1> QED
  BY <1>1, <1>2, <1>3

LEMMA Nested ==
  ASSUME NEW v \in Versions, NEW w \in Versions, v <= w
  PROVE  SchemaOf(v) \subseteq SchemaOf(w)
  BY Versioning DEF Versions, Latest, Objects

LEMMA Places ==
  ASSUME NEW r \in 1..3, NEW k \in Nat, k < Len(Upgrade[r]) \/ k < Len(Downgrade[r])
  PROVE  \/ r = 1 /\ k \in {0, 1, 2, 3, 4}
         \/ r = 2 /\ k \in {0, 1}
         \/ r = 3 /\ k = 0
<1>1. (r = 1 => k < 5) /\ (r = 2 => k < 2) /\ (r = 3 => k < 1)
  BY Lengths
<1>2. r = 1 \/ r = 2 \/ r = 3
  OBVIOUS
<1> QED
  BY <1>1, <1>2

(* Where V is what there is, x can be made; it can be dropped.             *)
CanMake(V, x) ==
  /\ x \in Objects
  /\ x # NullEmail => x \notin V
  /\ x \notin Tables => Subject(x) \in V
  /\ References(x) \subseteq V

CanDrop(V, x) ==
  /\ x \in Objects
  /\ x # NullEmail => x \in V
  /\ x \notin Tables => Subject(x) \in V
  /\ \A t \in V : x \notin References(t)

(* Every statement of an upgrade can be run after those before it: the     *)
(* object is not there yet, and what it refers to is.                      *)
LEMMA UpgradeFits ==
  ASSUME NEW r \in 1..3, NEW k \in Nat, k < Len(Upgrade[r])
  PROVE  CanMake(SchemaOf(r - 1) \cup First(Upgrade[r], k), Upgrade[r][k + 1])
<1> DEFINE V == SchemaOf(r - 1) \cup First(Upgrade[r], k)
           x == Upgrade[r][k + 1]
<1> HIDE DEF V, x
<1> SUFFICES CanMake(V, x)
  BY DEF V, x
<1>1. CASE r = 1 /\ k = 0
  <2>1. V = {} /\ x = "users"
    BY <1>1, Scripts, Prefixes, Versioning, Distinct DEF V, x, Tables
  <2> QED
    BY <2>1 DEF CanMake, Tables, Objects, NullEmail, ChainIndex, References, Subject
<1>2. CASE r = 1 /\ k = 1
  <2>1. V = {"users"} /\ x = "auth_identities"
    BY <1>2, Scripts, Prefixes, Versioning, Distinct DEF V, x, Tables
  <2> QED
    BY <2>1 DEF CanMake, Tables, Objects, NullEmail, ChainIndex, References, Subject
<1>3. CASE r = 1 /\ k = 2
  <2>1. V = {"users", "auth_identities"} /\ x = "password_resets"
    BY <1>3, Scripts, Prefixes, Versioning, Distinct DEF V, x, Tables
  <2> QED
    BY <2>1 DEF CanMake, Tables, Objects, NullEmail, ChainIndex, References, Subject
<1>4. CASE r = 1 /\ k = 3
  <2>1. V = {"users", "auth_identities", "password_resets"} /\ x = "refresh_tokens"
    BY <1>4, Scripts, Prefixes, Versioning, Distinct DEF V, x, Tables
  <2> QED
    BY <2>1 DEF CanMake, Tables, Objects, NullEmail, ChainIndex, References, Subject
<1>5. CASE r = 1 /\ k = 4
  <2>1. V = {"users", "auth_identities", "password_resets", "refresh_tokens"} /\ x = ChainIndex
    BY <1>5, Scripts, Prefixes, Versioning, Distinct DEF V, x, Tables
  <2> QED
    BY <2>1 DEF CanMake, Tables, Objects, NullEmail, ChainIndex, References, Subject
<1>6. CASE r = 2 /\ k = 0
  <2>1. V = {ChainIndex} \cup (Tables \ {"oauth_states", "oauth_codes"}) /\ x = "oauth_states"
    BY <1>6, Scripts, Prefixes, Versioning, Distinct DEF V, x, Tables
  <2> QED
    BY <2>1 DEF CanMake, Tables, Objects, NullEmail, ChainIndex, References, Subject
<1>7. CASE r = 2 /\ k = 1
  <2>1. V = {ChainIndex} \cup (Tables \ {"oauth_codes"}) /\ x = "oauth_codes"
    BY <1>7, Scripts, Prefixes, Versioning, Distinct DEF V, x, Tables
  <2> QED
    BY <2>1 DEF CanMake, Tables, Objects, NullEmail, ChainIndex, References, Subject
<1>8. CASE r = 3 /\ k = 0
  <2>1. V = {ChainIndex} \cup Tables /\ x = NullEmail
    BY <1>8, Scripts, Prefixes, Versioning, Distinct DEF V, x, Tables
  <2> QED
    BY <2>1 DEF CanMake, Tables, Objects, NullEmail, ChainIndex, References, Subject
<1>9. \/ r = 1 /\ k \in {0, 1, 2, 3, 4}
      \/ r = 2 /\ k \in {0, 1}
      \/ r = 3 /\ k = 0
  BY Places
<1> QED
  BY <1>1, <1>2, <1>3, <1>4, <1>5, <1>6, <1>7, <1>8, <1>9

(* Every statement of a downgrade can: the object is there, and no table   *)
(* that is still there refers to it.                                       *)
LEMMA DowngradeFits ==
  ASSUME NEW r \in 1..3, NEW k \in Nat, k < Len(Downgrade[r])
  PROVE  CanDrop(SchemaOf(r) \ First(Downgrade[r], k), Downgrade[r][k + 1])
<1> DEFINE V == SchemaOf(r) \ First(Downgrade[r], k)
           x == Downgrade[r][k + 1]
<1> HIDE DEF V, x
<1> SUFFICES CanDrop(V, x)
  BY DEF V, x
<1>1. CASE r = 1 /\ k = 0
  <2>1. V = {ChainIndex, "users", "auth_identities", "password_resets", "refresh_tokens"} /\ x = ChainIndex
    BY <1>1, Scripts, Prefixes, Versioning, Distinct DEF V, x, Tables
  <2> QED
    BY <2>1 DEF CanDrop, Tables, Objects, NullEmail, ChainIndex, References, Subject
<1>2. CASE r = 1 /\ k = 1
  <2>1. V = {"users", "auth_identities", "password_resets", "refresh_tokens"} /\ x = "refresh_tokens"
    BY <1>2, Scripts, Prefixes, Versioning, Distinct DEF V, x, Tables
  <2> QED
    BY <2>1 DEF CanDrop, Tables, Objects, NullEmail, ChainIndex, References, Subject
<1>3. CASE r = 1 /\ k = 2
  <2>1. V = {"users", "auth_identities", "password_resets"} /\ x = "password_resets"
    BY <1>3, Scripts, Prefixes, Versioning, Distinct DEF V, x, Tables
  <2> QED
    BY <2>1 DEF CanDrop, Tables, Objects, NullEmail, ChainIndex, References, Subject
<1>4. CASE r = 1 /\ k = 3
  <2>1. V = {"users", "auth_identities"} /\ x = "auth_identities"
    BY <1>4, Scripts, Prefixes, Versioning, Distinct DEF V, x, Tables
  <2> QED
    BY <2>1 DEF CanDrop, Tables, Objects, NullEmail, ChainIndex, References, Subject
<1>5. CASE r = 1 /\ k = 4
  <2>1. V = {"users"} /\ x = "users"
    BY <1>5, Scripts, Prefixes, Versioning, Distinct DEF V, x, Tables
  <2> QED
    BY <2>1 DEF CanDrop, Tables, Objects, NullEmail, ChainIndex, References, Subject
<1>6. CASE r = 2 /\ k = 0
  <2>1. V = {ChainIndex} \cup Tables /\ x = "oauth_codes"
    BY <1>6, Scripts, Prefixes, Versioning, Distinct DEF V, x, Tables
  <2> QED
    BY <2>1 DEF CanDrop, Tables, Objects, NullEmail, ChainIndex, References, Subject
<1>7. CASE r = 2 /\ k = 1
  <2>1. V = {ChainIndex} \cup (Tables \ {"oauth_codes"}) /\ x = "oauth_states"
    BY <1>7, Scripts, Prefixes, Versioning, Distinct DEF V, x, Tables
  <2> QED
    BY <2>1 DEF CanDrop, Tables, Objects, NullEmail, ChainIndex, References, Subject
<1>8. CASE r = 3 /\ k = 0
  <2>1. V = Objects /\ x = NullEmail
    BY <1>8, Scripts, Prefixes, Versioning, Distinct DEF V, x, Tables
  <2> QED
    BY <2>1 DEF CanDrop, Tables, Objects, NullEmail, ChainIndex, References, Subject
<1>9. \/ r = 1 /\ k \in {0, 1, 2, 3, 4}
      \/ r = 2 /\ k \in {0, 1}
      \/ r = 3 /\ k = 0
  BY Places
<1> QED
  BY <1>1, <1>2, <1>3, <1>4, <1>5, <1>6, <1>7, <1>8, <1>9

-----------------------------------------------------------------------------
(* The inductive invariant. *)

Running(m) == pc[m] = "running"

Ran(m) == First(Script(m), step[m])

(* A run is on its way from start to goal, and has done the revisions      *)
(* behind it and the first statements of the next one.                     *)
OnWay(m) ==
  /\ \/ start[m] <= at[m] /\ at[m] <= goal[m]
     \/ goal[m] <= at[m] /\ at[m] <= start[m]
  /\ at[m] = goal[m] => step[m] = 0
  /\ at[m] # goal[m] => step[m] <= Len(Script(m))
  /\ done[m] = Ran(m) \cup
       IF Rising(m) THEN SchemaOf(at[m]) \ SchemaOf(start[m])
                    ELSE SchemaOf(start[m]) \ SchemaOf(at[m])

OnTheWay == \A m \in Migrators : OnWay(m)

(* Two transactions on a database do not hold a table in common. *)
Exclusive ==
  \A m, n \in Migrators :
    m # n /\ Target(m) = Target(n) => HeldBy(m) \cap HeldBy(n) = {}

(* Once a run has stamped a revision, the version it read is still that of *)
(* the database; tables and indexes it has made are only its own, and those *)
(* it has dropped are still there for the others.                          *)
Current ==
  \A m \in Migrators :
    /\ at[m] # start[m] => version[Target(m)] = start[m]
    /\ \A x \in done[m] \ {NullEmail} : Rising(m) <=> x \notin schema[Target(m)]

(* A run holds one lock of two only at a statement with a foreign key; what *)
(* it is about to drop is there.                                           *)
Halfway ==
  \A m \in Migrators :
    m \in half => /\ InRevision(m) /\ References(Statement(m)) # {}
                  /\ ~Rising(m) => Statement(m) \in schema[Target(m)]

(* An open insert keeps users as it is. *)
InsertsProtected ==
  \A d \in inserting :
    /\ "users" \in schema[d]
    /\ "users" \notin reads[d] => NullEmail \in schema[d]
    /\ \A m \in Migrators : Target(m) = d => "users" \notin HeldBy(m)

(* NOT NULL was put back where no user is without e-mail. *)
ForbidsRightly ==
  \A m \in Migrators :
    ~Rising(m) /\ NullEmail \in done[m] => Target(m) \notin idOnly

IInv ==
  /\ TypeOK
  /\ OnTheWay
  /\ Exclusive
  /\ Current
  /\ Halfway
  /\ InsertsProtected
  /\ ForbidsRightly
  /\ CatalogIsVersion
  /\ IdOnlyFits

-----------------------------------------------------------------------------
(* The parts of a run. *)

LEMMA TargetType == \A m \in Migrators : Target(m) \in Databases
  BY DEF Target, Databases

LEMMA UsersIn ==
  ASSUME NEW v \in Versions
  PROVE  /\ "users" \in SchemaOf(v) <=> v # 0
         /\ NullEmail \in SchemaOf(v) <=> v = 3
         /\ SchemaOf(v) \subseteq Objects
<1>1. v \in {0, 1, 2, 3}
  BY DEF Versions, Latest
<1>2. "users" \in Tables \ {"oauth_states", "oauth_codes"}
  BY DEF Tables
<1> QED
  BY <1>1, <1>2, Versioning, Distinct

LEMMA HoldsDone ==
  ASSUME TypeOK, NEW m \in Migrators
  PROVE  /\ \A x \in done[m] : Subject(x) \in HeldBy(m) /\ References(x) \subseteq HeldBy(m)
         /\ \A x \in done[m] \cap Tables : x \in HeldBy(m)
         /\ NullEmail \in done[m] => "users" \in HeldBy(m)
         /\ at[m] # start[m] => VersionTable \in HeldBy(m)
<1>1. \A x \in done[m] : Subject(x) \in HeldBy(m) /\ References(x) \subseteq HeldBy(m)
  BY DEF HeldBy, Locks
<1>2. at[m] # start[m] => VersionTable \in HeldBy(m)
  BY DEF HeldBy
<1> QED
  BY <1>1, <1>2, Locking

(* What a run holds and has done depends on nothing but its own variables. *)
LEMMA SameRun ==
  ASSUME NEW n \in Migrators, pc'[n] = pc[n],
         start'[n] = start[n], goal'[n] = goal[n], at'[n] = at[n],
         step'[n] = step[n], n \in half' <=> n \in half, done'[n] = done[n]
  PROVE  /\ Rising(n)' <=> Rising(n)
         /\ HeldBy(n)' = HeldBy(n)
         /\ OnWay(n)' <=> OnWay(n)
         /\ InRevision(n)' <=> InRevision(n)
         /\ Statement(n)' = Statement(n)
<1>1. Rising(n)' <=> Rising(n)
  BY DEF Rising
<1>2. Script(n)' = Script(n)
  BY <1>1 DEF Script
<1>3. Ran(n)' = Ran(n) /\ Statement(n)' = Statement(n)
  BY <1>2 DEF Ran, Statement
<1>4. HeldBy(n)' = HeldBy(n)
  BY <1>3 DEF HeldBy
<1>5. OnWay(n)' <=> OnWay(n)
  BY <1>1, <1>2, <1>3 DEF OnWay
<1>6. InRevision(n)' <=> InRevision(n)
  BY <1>2 DEF InRevision
<1> QED
  BY <1>1, <1>3, <1>4, <1>5, <1>6

(* A step of m is a step of no other run. *)
LEMMA OtherRuns ==
  ASSUME TypeOK, NEW m \in Migrators, NEW n \in Migrators, n # m,
         Begin(m) \/ Open(m) \/ Execute(m) \/ Stamp(m) \/ Fail(m)
           \/ Deadlock(m) \/ Commit(m) \/ Crash(m) \/ Serve(m)
  PROVE  /\ pc'[n] = pc[n] /\ start'[n] = start[n] /\ goal'[n] = goal[n]
         /\ at'[n] = at[n] /\ step'[n] = step[n] /\ done'[n] = done[n]
         /\ n \in half' <=> n \in half
         /\ Rising(n)' <=> Rising(n)
         /\ HeldBy(n)' = HeldBy(n)
         /\ OnWay(n)' <=> OnWay(n)
         /\ InRevision(n)' <=> InRevision(n)
         /\ Statement(n)' = Statement(n)
<1>1. /\ pc'[n] = pc[n] /\ start'[n] = start[n] /\ goal'[n] = goal[n]
      /\ at'[n] = at[n] /\ step'[n] = step[n] /\ done'[n] = done[n]
      /\ n \in half' <=> n \in half
  BY DEF TypeOK, Begin, Open, Execute, Stamp, Fail, Deadlock, Commit, Crash,
         Serve, Close, Goto, run
<1> QED
  BY <1>1, SameRun

(* After a step, a run that has nothing done holds nothing, and stands     *)
(* where it has started.                                                   *)
LEMMA NothingDone ==
  ASSUME NEW m \in Migrators, start'[m] \in Versions, goal'[m] \in Versions,
         done'[m] = {}, step'[m] = 0, at'[m] = start'[m], m \notin half'
  PROVE  HeldBy(m)' = {} /\ OnWay(m)'
<1>1. HeldBy(m)' = {}
  BY DEF HeldBy
<1>2. Ran(m)' = {}
  BY Firsts DEF Ran
<1>3. at'[m] # goal'[m] => Len(Script(m)') \in Nat
  <2>1. start'[m] \in 0..3 /\ goal'[m] \in 0..3
    BY DEF Versions, Latest
  <2>2. CASE start'[m] < goal'[m]
    <3>1. at'[m] + 1 \in 1..3 /\ Script(m)' = Upgrade[at'[m] + 1]
      BY <2>1, <2>2 DEF Script, Rising
    <3> QED
      BY <3>1, Revisions
  <2>3. CASE goal'[m] < start'[m]
    <3>1. at'[m] \in 1..3 /\ Script(m)' = Downgrade[at'[m]]
      BY <2>1, <2>3 DEF Script, Rising
    <3> QED
      BY <3>1, Revisions
  <2> QED
    BY <2>1, <2>2, <2>3
<1>4. (start'[m] <= at'[m] /\ at'[m] <= goal'[m])
        \/ (goal'[m] <= at'[m] /\ at'[m] <= start'[m])
  BY DEF Versions, Latest
<1> QED
  BY <1>1, <1>2, <1>3, <1>4 DEF OnWay

(* The next revision of a run that is not where it was told to go. *)
LEMMA NextRevision ==
  ASSUME TypeOK, OnTheWay, NEW m \in Migrators, at[m] # goal[m]
  PROVE  /\ Rising(m) => /\ start[m] <= at[m] /\ at[m] < goal[m]
                         /\ at[m] + 1 \in 1..3 /\ (at[m] + 1) - 1 = at[m]
                         /\ Script(m) = Upgrade[at[m] + 1]
         /\ ~Rising(m) => /\ goal[m] < at[m] /\ at[m] <= start[m]
                          /\ at[m] \in 1..3
                          /\ Script(m) = Downgrade[at[m]]
         /\ Toward(m) \in Versions
         /\ Len(Script(m)) \in Nat
<1>1. OnWay(m) /\ start[m] \in 0..3 /\ at[m] \in 0..3 /\ goal[m] \in 0..3
  BY DEF TypeOK, OnTheWay, Versions, Latest
<1>2. Rising(m) => /\ start[m] <= at[m] /\ at[m] < goal[m]
                   /\ at[m] + 1 \in 1..3 /\ (at[m] + 1) - 1 = at[m]
                   /\ Script(m) = Upgrade[at[m] + 1]
  BY <1>1 DEF OnWay, Rising, Script
<1>3. ~Rising(m) => /\ goal[m] < at[m] /\ at[m] <= start[m]
                    /\ at[m] \in 1..3
                    /\ Script(m) = Downgrade[at[m]]
  BY <1>1 DEF OnWay, Rising, Script
<1>4. Toward(m) \in Versions
  BY <1>1, <1>2, <1>3 DEF Toward, Versions, Latest
<1>5. Len(Script(m)) \in Nat
  BY <1>2, <1>3, Revisions
<1> QED
  BY <1>2, <1>3, <1>4, <1>5

(* What a run sees as long as nobody has overtaken it. *)
LEMMA UndisturbedView ==
  ASSUME TypeOK, OnTheWay, CatalogIsVersion, NEW m \in Migrators,
         version[Target(m)] = start[m]
  PROVE  View(m) = IF Rising(m) THEN SchemaOf(at[m]) \cup Ran(m)
                                ELSE SchemaOf(at[m]) \ Ran(m)
<1>1. OnWay(m) /\ start[m] \in Versions /\ at[m] \in Versions /\ goal[m] \in Versions
  BY DEF TypeOK, OnTheWay
<1>2. schema[Target(m)] = SchemaOf(start[m])
  BY TargetType DEF CatalogIsVersion
<1>3. CASE Rising(m)
  <2>1. start[m] <= at[m]
    BY <1>1, <1>3 DEF OnWay, Rising, Versions, Latest
  <2>2. SchemaOf(start[m]) \subseteq SchemaOf(at[m])
    BY <1>1, <2>1, Nested
  <2>3. done[m] = Ran(m) \cup (SchemaOf(at[m]) \ SchemaOf(start[m]))
    BY <1>1, <1>3 DEF OnWay
  <2> QED
    BY <1>2, <1>3, <2>2, <2>3 DEF View
<1>4. CASE ~Rising(m)
  <2>1. at[m] <= start[m]
    BY <1>1, <1>4 DEF OnWay, Rising, Versions, Latest
  <2>2. SchemaOf(at[m]) \subseteq SchemaOf(start[m])
    BY <1>1, <2>1, Nested
  <2>3. done[m] = Ran(m) \cup (SchemaOf(start[m]) \ SchemaOf(at[m]))
    BY <1>1, <1>4 DEF OnWay
  <2> QED
    BY <1>2, <1>4, <2>2, <2>3 DEF View
<1> QED
  BY <1>3, <1>4

(* PostgreSQL refuses a run that nobody has overtaken only one statement:  *)
(* SET NOT NULL, where a user has no e-mail.                               *)
LEMMA StatementFits ==
  ASSUME TypeOK, OnTheWay, CatalogIsVersion, NEW m \in Migrators,
         InRevision(m)
  PROVE  /\ Statement(m) \in Objects
         /\ version[Target(m)] = start[m] /\ Refused(m, Statement(m)) =>
              ~Rising(m) /\ Statement(m) = NullEmail /\ Target(m) \in idOnly
<1> DEFINE x == Statement(m)
           k == step[m]
<1>1. at[m] # goal[m] /\ k \in Nat /\ k < Len(Script(m))
  BY DEF InRevision, TypeOK
<1>2. x = Script(m)[k + 1] /\ Ran(m) = First(Script(m), k)
  BY DEF Statement, Ran
<1>3. CASE Rising(m)
  <2> DEFINE V == SchemaOf(at[m]) \cup Ran(m)
  <2>1. \E r \in 1..3 : r - 1 = at[m] /\ Script(m) = Upgrade[r]
    BY <1>1, <1>3, NextRevision
  <2>2. PICK r \in 1..3 : r - 1 = at[m] /\ Script(m) = Upgrade[r]
    BY <2>1
  <2>3. CanMake(SchemaOf(r - 1) \cup First(Upgrade[r], k), Upgrade[r][k + 1])
    BY <1>1, <2>2, UpgradeFits
  <2>4. CanMake(V, x)
    BY <1>2, <2>2, <2>3
  <2>5. version[Target(m)] = start[m] => View(m) = V
    BY <1>3, UndisturbedView
  <2> HIDE DEF V, x
  <2>6. version[Target(m)] = start[m] => ~Refused(m, x)
    BY <1>3, <2>4, <2>5, Distinct DEF Refused, CanMake
  <2>7. x \in Objects
    BY <2>4 DEF CanMake
  <2> QED
    BY <2>6, <2>7 DEF x
<1>4. CASE ~Rising(m)
  <2> DEFINE V == SchemaOf(at[m]) \ Ran(m)
  <2>1. at[m] \in 1..3 /\ Script(m) = Downgrade[at[m]]
    BY <1>1, <1>4, NextRevision
  <2>2. PICK r \in 1..3 : r = at[m] /\ Script(m) = Downgrade[r]
    BY <2>1
  <2>3. CanDrop(SchemaOf(r) \ First(Downgrade[r], k), Downgrade[r][k + 1])
    BY <1>1, <2>2, DowngradeFits
  <2>4. CanDrop(V, x)
    BY <1>2, <2>2, <2>3
  <2>5. version[Target(m)] = start[m] => View(m) = V
    BY <1>4, UndisturbedView
  <2> HIDE DEF V, x
  <2>6. version[Target(m)] = start[m] /\ Refused(m, x) =>
          x = NullEmail /\ Target(m) \in idOnly
    BY <1>4, <2>4, <2>5 DEF Refused, CanDrop
  <2>7. x \in Objects
    BY <2>4 DEF CanDrop
  <2> QED
    BY <1>4, <2>6, <2>7 DEF x
<1> QED
  BY <1>3, <1>4

(* A downgrade drops users last of its revision. *)
LEMMA UsersLast ==
  ASSUME NEW q \in 1..3, NEW k \in Nat, k < Len(Downgrade[q])
  PROVE  "users" \notin First(Downgrade[q], k)
<1>1. "users" # ChainIndex
  BY DEF ChainIndex
<1> QED
  BY <1>1, Places, Prefixes

(* A downgrade that is about to drop a table sees users. *)
LEMMA UsersSeen ==
  ASSUME TypeOK, OnTheWay, CatalogIsVersion, NEW m \in Migrators,
         InRevision(m), ~Rising(m), schema[Target(m)] # {}
  PROVE  "users" \in View(m)
<1>1. "users" \in schema[Target(m)]
  <2>1. version[Target(m)] \in Versions /\ schema[Target(m)] = SchemaOf(version[Target(m)])
    BY TargetType DEF TypeOK, CatalogIsVersion
  <2>2. version[Target(m)] # 0
    BY <2>1, Versioning
  <2> QED
    BY <2>1, <2>2, UsersIn
<1>2. "users" \notin done[m]
  <2>1. at[m] \in 1..3 /\ Script(m) = Downgrade[at[m]] /\ at[m] \in Versions
    BY NextRevision DEF InRevision, TypeOK
  <2>2. step[m] \in Nat /\ step[m] < Len(Downgrade[at[m]])
    BY <2>1 DEF InRevision, TypeOK
  <2>3. "users" \notin Ran(m)
    BY <2>1, <2>2, UsersLast DEF Ran
  <2>4. "users" \in SchemaOf(at[m])
    BY <2>1, UsersIn
  <2> QED
    BY <2>3, <2>4 DEF OnTheWay, OnWay
<1> QED
  BY <1>1, <1>2 DEF View

(* A statement that is not refused has waited for what it now locks. *)
LEMMA LocksSeen ==
  ASSUME IInv, NEW m \in Migrators, InRevision(m), ~Refused(m, Statement(m))
  PROVE  /\ m \notin half => Subject(Statement(m)) \in Needs(m)
         /\ m \in half => References(Statement(m)) \subseteq Needs(m)
<1> DEFINE x == Statement(m)
<1>1. x \in Objects /\ ~Refused(m, x) /\ Subject(x) \in Tables
  BY StatementFits, Locking DEF IInv
<1>2. ASSUME m \notin half
      PROVE  Subject(x) \in Needs(m)
  <2>1. Naming(m) <=> Subject(x) \notin View(m)
    <3>1. CASE x \in Tables
      BY <1>1, <3>1, Locking, Distinct DEF Refused, Naming
    <3>2. CASE x \notin Tables
      BY <1>1, <3>2 DEF Refused, Naming
    <3> QED
      BY <3>1, <3>2
  <2> QED
    BY <1>1, <1>2, <2>1 DEF Needs
<1>3. ASSUME m \in half
      PROVE  References(x) \subseteq Needs(m)
  <2>1. References(x) \subseteq Tables
    BY Locking
  <2>2. References(x) \subseteq View(m)
    <3>1. CASE Rising(m)
      BY <1>1, <3>1 DEF Refused
    <3>2. CASE ~Rising(m)
      <4>1. schema[Target(m)] # {}
        BY <1>3, <3>2 DEF IInv, Halfway
      <4> QED
        BY <3>2, <4>1, UsersSeen, Locking DEF IInv
    <3> QED
      BY <3>1, <3>2
  <2> QED
    BY <1>3, <2>1, <2>2 DEF Needs
<1> QED
  BY <1>2, <1>3

-----------------------------------------------------------------------------
(* Every action preserves the invariant. *)

LEMMA InitIInv == ASSUME Init PROVE IInv
<1>1. TypeOK
  <2>1. \A v \in Versions : SchemaOf(v) \in SUBSET Objects
    BY UsersIn
  <2> QED
    BY <2>1 DEF Init, TypeOK, Versions, Latest
<1>2. \A m \in Migrators : /\ start[m] = 0 /\ goal[m] = 0 /\ at[m] = 0
                           /\ step[m] = 0 /\ m \notin half /\ done[m] = {}
  BY DEF Init
<1>3. \A m \in Migrators : HeldBy(m) = {} /\ OnWay(m)
  <2> SUFFICES ASSUME NEW m \in Migrators
               PROVE  HeldBy(m) = {} /\ OnWay(m)
    OBVIOUS
  <2>1. Ran(m) = {}
    BY <1>2, Firsts DEF Ran
  <2>2. HeldBy(m) = {}
    BY <1>2 DEF HeldBy
  <2>3. at[m] = start[m] /\ at[m] = goal[m] /\ step[m] = 0 /\ done[m] = {}
    BY <1>2
  <2>4. start[m] <= at[m] /\ at[m] <= goal[m]
    BY <1>2
  <2> QED
    BY <2>1, <2>2, <2>3, <2>4 DEF OnWay
<1> QED
  BY <1>1, <1>2, <1>3 DEF Init, IInv, OnTheWay, Exclusive, Current,
     Halfway, InsertsProtected, ForbidsRightly, CatalogIsVersion, IdOnlyFits

LEMMA BeginIInv ==
  ASSUME IInv, NEW m \in Migrators, Begin(m)
  PROVE  IInv'
<1> USE DEF IInv
<1>1. TypeOK'
  <2>1. version[Target(m)] \in 0..3 /\ pc[m] = "idle"
    BY TargetType DEF Begin, TypeOK, Versions, Latest
  <2>2. \A n \in Migrators : n # m =>
          /\ pc'[n] = pc[n] /\ start'[n] = start[n] /\ goal'[n] = goal[n]
          /\ at'[n] = at[n] /\ step'[n] = step[n] /\ done'[n] = done[n]
          /\ n \in half' <=> n \in half
    BY OtherRuns
  <2>3. PICK v \in IF m \in Operators THEN 0..version[Target(m)] ELSE {Latest} :
          goal' = [goal EXCEPT ![m] = v]
    BY DEF Begin
  <2>4. v \in 0..3
    BY <2>1, <2>3 DEF Latest
  <2>5. pc'[m] = "running"
    BY DEF Begin, Goto, TypeOK
  <2> QED
    BY <2>1, <2>2, <2>3, <2>4, <2>5
       DEF Begin, Goto, TypeOK, committed, service, Versions, Latest
<1>2. /\ done'[m] = {} /\ step'[m] = 0 /\ at'[m] = start'[m]
      /\ start'[m] = version[Target(m)] /\ half' = half /\ m \notin half
  BY DEF Begin, TypeOK
<1>3. HeldBy(m)' = {} /\ OnWay(m)'
  BY <1>1, <1>2, NothingDone DEF TypeOK
<1>4. \A n \in Migrators : n # m =>
        /\ start'[n] = start[n] /\ at'[n] = at[n] /\ done'[n] = done[n]
        /\ Rising(n)' <=> Rising(n)
        /\ HeldBy(n)' = HeldBy(n)
        /\ OnWay(n)' <=> OnWay(n)
        /\ InRevision(n)' <=> InRevision(n)
        /\ Statement(n)' = Statement(n)
  BY OtherRuns
<1>5. UNCHANGED <<schema, version, idOnly, reads, inserting>>
  BY DEF Begin, committed, service
<1> QED
  BY <1>1, <1>2, <1>3, <1>4, <1>5 DEF OnTheWay, Exclusive, Current,
     Halfway, InsertsProtected, ForbidsRightly, CatalogIsVersion, IdOnlyFits

(* What a run now locks nobody else holds, and no open insert needs. *)
LEMMA LocksFree ==
  ASSUME IInv, NEW m \in Migrators, Granted(m), ~Refused(m, Statement(m)),
         HeldBy(m)' \subseteq HeldBy(m) \cup Needs(m),
         UNCHANGED <<schema, reads, inserting>>,
         \A n \in Migrators : n # m => HeldBy(n)' = HeldBy(n)
  PROVE  Exclusive' /\ InsertsProtected'
<1>1. \A n \in Migrators \ {m} : Target(n) = Target(m) => Needs(m) \cap HeldBy(n) = {}
  BY DEF Granted, WaitsFor
<1>2. Exclusive'
  BY <1>1 DEF IInv, Exclusive
<1>3. Target(m) \in inserting => "users" \notin Needs(m)
  BY DEF Granted, InUse
<1>4. InsertsProtected'
  BY <1>3 DEF IInv, InsertsProtected
<1> QED
  BY <1>2, <1>4

LEMMA OpenIInv ==
  ASSUME IInv, NEW m \in Migrators, Open(m)
  PROVE  IInv'
<1> DEFINE x == Statement(m)
<1>1. TypeOK /\ OnTheWay /\ CatalogIsVersion
  BY DEF IInv
<1>2. /\ Granted(m) /\ InRevision(m) /\ ~Refused(m, x)
      /\ m \notin half /\ References(x) # {}
  BY DEF Open, Granted, LastLock
<1>3. /\ UNCHANGED <<schema, version, idOnly, reads, inserting>>
      /\ UNCHANGED <<pc, start, goal, at, step, done>>
      /\ half' = half \cup {m}
  BY DEF Open, committed, service
<1>4. \A n \in Migrators : n # m => HeldBy(n)' = HeldBy(n)
  BY <1>1, OtherRuns
<1>5. \A n \in Migrators :
        /\ Rising(n)' <=> Rising(n)
        /\ Statement(n)' = Statement(n)
        /\ InRevision(n)' <=> InRevision(n)
        /\ OnWay(n)' <=> OnWay(n)
  BY <1>3 DEF Rising, Statement, Script, InRevision, OnWay, Ran
<1>6. HeldBy(m)' \subseteq HeldBy(m) \cup {Subject(x)}
  BY <1>3, <1>5 DEF HeldBy
<1>7. Subject(x) \in Needs(m)
  BY <1>2, LocksSeen
<1>8. Exclusive' /\ InsertsProtected'
  BY <1>2, <1>3, <1>4, <1>6, <1>7, LocksFree
<1>9. TypeOK'
  <2>1. pc[m] = "running"
    BY <1>2 DEF InRevision
  <2> QED
    BY <1>1, <1>3, <2>1 DEF TypeOK
<1>10. Halfway'
  <2>1. ~Rising(m) => x \in schema[Target(m)]
    <3>1. x # NullEmail
      BY <1>2, Locking
    <3> QED
      BY <1>2, <3>1 DEF Refused, View
  <2> QED
    BY <1>2, <1>3, <1>5, <2>1 DEF IInv, Halfway
<1>11. Current' /\ ForbidsRightly'
  BY <1>3, <1>5 DEF IInv, Current, ForbidsRightly
<1>12. OnTheWay' /\ CatalogIsVersion' /\ IdOnlyFits'
  BY <1>1, <1>3, <1>5 DEF IInv, OnTheWay, CatalogIsVersion, IdOnlyFits
<1> QED
  BY <1>8, <1>9, <1>10, <1>11, <1>12 DEF IInv

LEMMA ExecuteIInv ==
  ASSUME IInv, NEW m \in Migrators, Execute(m)
  PROVE  IInv'
<1> DEFINE x == Statement(m)
<1>1. TypeOK /\ OnTheWay /\ CatalogIsVersion
  BY DEF IInv
<1>2. Granted(m) /\ InRevision(m) /\ ~Refused(m, x) /\ LastLock(m)
  BY DEF Execute, Granted
<1>3. x \in Objects
  BY <1>1, <1>2, StatementFits
<1>4. /\ pc' = pc /\ start' = start /\ goal' = goal /\ at' = at
      /\ UNCHANGED <<schema, version, idOnly, reads, inserting>>
      /\ step'[m] = step[m] + 1 /\ half' = half \ {m}
      /\ done'[m] = done[m] \cup {x}
  BY <1>1 DEF Execute, TypeOK, committed, service
<1>5. \A n \in Migrators : n # m =>
        /\ done'[n] = done[n]
        /\ HeldBy(n)' = HeldBy(n)
        /\ OnWay(n)' <=> OnWay(n)
        /\ InRevision(n)' <=> InRevision(n)
        /\ Statement(n)' = Statement(n)
  BY <1>1, OtherRuns
<1>6. \A n \in Migrators : Rising(n)' <=> Rising(n)
  BY <1>4 DEF Rising
<1>7. HeldBy(m)' \subseteq HeldBy(m) \cup Needs(m)
  <2>1. HeldBy(m)' \subseteq HeldBy(m) \cup Locks(x)
    BY <1>4 DEF HeldBy
  <2>2. CASE m \in half
    <3>1. Subject(x) \in HeldBy(m)
      BY <2>2 DEF HeldBy
    <3>2. References(x) \subseteq Needs(m)
      BY <1>2, <2>2, LocksSeen
    <3> QED
      BY <2>1, <3>1, <3>2 DEF Locks
  <2>3. CASE m \notin half
    <3>1. References(x) = {}
      BY <1>2, <2>3 DEF LastLock
    <3>2. Subject(x) \in Needs(m)
      BY <1>2, <2>3, LocksSeen
    <3> QED
      BY <2>1, <3>1, <3>2 DEF Locks
  <2> QED
    BY <2>2, <2>3
<1>8. x = Script(m)[step[m] + 1]
  BY DEF Statement
<1>9. pc[m] = "running" /\ at[m] # goal[m] /\ step[m] < Len(Script(m))
        /\ step[m] \in Nat
  BY <1>1, <1>2 DEF InRevision, TypeOK
<1>10. Exclusive' /\ InsertsProtected'
  BY <1>2, <1>4, <1>5, <1>7, LocksFree
<1> HIDE DEF x
<1>11. TypeOK'
  <2>1. done' \in [Migrators -> SUBSET Objects] /\ step' \in [Migrators -> Nat]
    BY <1>1, <1>3, <1>8 DEF Execute, TypeOK, x
  <2>2. \A n \in Migrators : pc[n] # "running" =>
          done'[n] = done[n] /\ step'[n] = step[n]
    BY <1>1, <1>9 DEF Execute, TypeOK
  <2> QED
    BY <1>1, <1>4, <2>1, <2>2 DEF TypeOK
<1>12. OnTheWay'
  <2>1. Script(m)' = Script(m)
    BY <1>4 DEF Script, Rising
  <2>2. Ran(m)' = Ran(m) \cup {x}
    BY <1>4, <1>8, <1>9, <2>1, FirstGrows DEF Ran
  <2>3. OnWay(m)
    BY <1>1 DEF OnTheWay
  <2>4. step'[m] <= Len(Script(m)')
    <3>1. Len(Script(m)) \in Nat
      BY <1>1, <1>9, NextRevision
    <3> QED
      BY <1>4, <1>9, <2>1, <3>1
  <2>5. OnWay(m)'
    BY <1>4, <1>6, <1>9, <2>2, <2>3, <2>4 DEF OnWay
  <2> QED
    BY <1>1, <1>5, <2>5 DEF OnTheWay
<1>13. Current'
  <2>1. x # NullEmail => (Rising(m) <=> x \notin schema[Target(m)])
    BY <1>2 DEF Refused, View, x
  <2> QED
    BY <1>4, <1>5, <1>6, <2>1 DEF IInv, Current
<1>14. ForbidsRightly'
  <2>1. ~Rising(m) /\ x = NullEmail => Target(m) \notin idOnly
    BY <1>2 DEF Refused, x
  <2> QED
    BY <1>4, <1>5, <1>6, <2>1 DEF IInv, ForbidsRightly
<1>15. Halfway'
  BY <1>4, <1>5, <1>6 DEF IInv, Halfway
<1>16. CatalogIsVersion' /\ IdOnlyFits'
  BY <1>4 DEF IInv, CatalogIsVersion, IdOnlyFits
<1> QED
  BY <1>10, <1>11, <1>12, <1>13, <1>14, <1>15, <1>16 DEF IInv

LEMMA StampIInv ==
  ASSUME IInv, NEW m \in Migrators, Stamp(m)
  PROVE  IInv'
<1>1. TypeOK /\ OnTheWay /\ CatalogIsVersion
  BY DEF IInv
<1>2. /\ AtStamp(m) /\ WaitsFor(m) = {} /\ ~Outdated(m)
      /\ pc[m] = "running" /\ at[m] # goal[m] /\ step[m] = Len(Script(m))
      /\ m \notin half
  BY <1>1 DEF Stamp, AtStamp, IInv, Halfway, InRevision
<1>3. /\ pc' = pc /\ start' = start /\ goal' = goal /\ done' = done
      /\ half' = half
      /\ UNCHANGED <<schema, version, idOnly, reads, inserting>>
      /\ step'[m] = 0
      /\ at'[m] = Toward(m)
  BY <1>1 DEF Stamp, TypeOK, committed, service
<1>4. \A n \in Migrators : n # m =>
        /\ at'[n] = at[n] /\ step'[n] = step[n]
        /\ HeldBy(n)' = HeldBy(n)
        /\ OnWay(n)' <=> OnWay(n)
        /\ InRevision(n)' <=> InRevision(n)
        /\ Statement(n)' = Statement(n)
  BY <1>1, OtherRuns
<1>5. \A n \in Migrators : Rising(n)' <=> Rising(n)
  BY <1>3 DEF Rising
<1>6. HeldBy(m)' \subseteq HeldBy(m) \cup {VersionTable}
  BY <1>2, <1>3 DEF HeldBy
<1>7. TypeOK'
  <2>1. Toward(m) \in Versions
    BY <1>1, <1>2, NextRevision
  <2>2. at' \in [Migrators -> Versions] /\ step' \in [Migrators -> Nat]
    BY <1>1, <2>1 DEF Stamp, TypeOK
  <2> QED
    BY <1>1, <1>2, <1>3, <1>4, <2>2 DEF TypeOK
<1>8. OnTheWay'
  <2>1. start[m] \in 0..3 /\ at[m] \in 0..3 /\ goal[m] \in 0..3
    BY <1>1 DEF TypeOK, Versions, Latest
  <2>2. OnWay(m) /\ Ran(m)' = {}
    BY <1>1, <1>3, Firsts DEF OnTheWay, Ran
  <2>3. at'[m] # goal[m] => 0 <= Len(Script(m)')
    BY <1>3, <1>7, NextRevision
  <2>4. CASE Rising(m)
    <3> DEFINE S == SchemaOf(start[m])
               A == SchemaOf(at[m])
               B == SchemaOf(at[m] + 1)
    <3>1. /\ at'[m] = at[m] + 1 /\ at[m] + 1 \in 1..3 /\ (at[m] + 1) - 1 = at[m]
          /\ Script(m) = Upgrade[at[m] + 1]
          /\ start[m] <= at[m] /\ at[m] < goal[m]
      BY <1>1, <1>2, <1>3, <2>4, NextRevision DEF Toward
    <3>2. Ran(m) = B \ A /\ A \subseteq B
      BY <1>2, <3>1, Revisions DEF Ran
    <3>3. S \subseteq A
      BY <2>1, <3>1, Nested DEF Versions, Latest
    <3>4. done[m] = Ran(m) \cup (A \ S)
      BY <2>2, <2>4 DEF OnWay
    <3>5. done'[m] = Ran(m)' \cup (SchemaOf(at'[m]) \ SchemaOf(start'[m]))
      BY <1>3, <2>2, <3>1, <3>2, <3>3, <3>4
    <3>6. start'[m] <= at'[m] /\ at'[m] <= goal'[m]
      BY <1>3, <2>1, <3>1
    <3> QED
      BY <1>3, <1>4, <1>5, <2>3, <2>4, <3>5, <3>6, <1>1 DEF OnWay, OnTheWay
  <2>5. CASE ~Rising(m)
    <3> DEFINE S == SchemaOf(start[m])
               A == SchemaOf(at[m])
               B == SchemaOf(at[m] - 1)
    <3>1. /\ at'[m] = at[m] - 1 /\ at[m] \in 1..3
          /\ Script(m) = Downgrade[at[m]]
          /\ at[m] <= start[m] /\ goal[m] < at[m]
      BY <1>1, <1>2, <1>3, <2>5, NextRevision DEF Toward
    <3>2. Ran(m) = A \ B /\ B \subseteq A
      BY <1>2, <3>1, Revisions DEF Ran
    <3>3. A \subseteq S
      BY <2>1, <3>1, Nested DEF Versions, Latest
    <3>4. done[m] = Ran(m) \cup (S \ A)
      BY <2>2, <2>5 DEF OnWay
    <3>5. done'[m] = Ran(m)' \cup (SchemaOf(start'[m]) \ SchemaOf(at'[m]))
      BY <1>3, <2>2, <3>1, <3>2, <3>3, <3>4
    <3>6. goal'[m] <= at'[m] /\ at'[m] <= start'[m]
      BY <1>3, <2>1, <3>1
    <3> QED
      BY <1>3, <1>4, <1>5, <2>3, <2>5, <3>5, <3>6, <1>1 DEF OnWay, OnTheWay
  <2> QED
    BY <2>4, <2>5
<1>9. Exclusive'
  <2>1. \A n \in Migrators \ {m} :
          Target(n) = Target(m) => VersionTable \notin HeldBy(n)
    <3>1. VersionTable \in Needs(m)
      BY <1>2 DEF Needs
    <3> QED
      BY <1>2, <3>1 DEF WaitsFor
  <2> QED
    BY <1>4, <1>6, <2>1 DEF IInv, Exclusive
<1>10. Current'
  <2>1. version[Target(m)] = start[m]
    <3>1. CASE at[m] # start[m]
      BY <3>1 DEF IInv, Current
    <3>2. CASE at[m] = start[m] /\ at[m] # 0
      BY <1>2, <3>2 DEF Outdated, ViewVersion
    <3>3. CASE at[m] = start[m] /\ at[m] = 0
      <4>1. start[m] = 0 /\ goal[m] \in 0..3 /\ goal[m] # 0
        BY <1>1, <1>2, <3>3 DEF TypeOK, Versions, Latest
      <4>2. Rising(m) /\ Script(m) = Upgrade[1] /\ step[m] = 5
        BY <1>2, <3>3, <4>1, Lengths DEF Rising, Script
      <4>3. "users" \in Ran(m)
        BY <4>2, Firsts, Scripts DEF Ran
      <4>4. "users" \in done[m]
        BY <1>1, <4>3 DEF OnTheWay, OnWay
      <4>5. "users" \notin SchemaOf(version[Target(m)])
        BY <1>1, <4>2, <4>4, TargetType, Locking, Distinct
           DEF IInv, Current, CatalogIsVersion
      <4> QED
        BY <1>1, <3>3, <4>5, TargetType, UsersIn DEF TypeOK
    <3> QED
      BY <3>1, <3>2, <3>3
  <2> QED
    BY <1>3, <1>4, <1>5, <2>1 DEF IInv, Current
<1>11. InsertsProtected' /\ Halfway'
  <2>1. InsertsProtected'
    BY <1>3, <1>4, <1>6 DEF IInv, InsertsProtected, VersionTable
  <2>2. Halfway'
    BY <1>2, <1>3, <1>4, <1>5 DEF IInv, Halfway
  <2> QED
    BY <2>1, <2>2
<1>12. ForbidsRightly' /\ CatalogIsVersion' /\ IdOnlyFits'
  BY <1>3, <1>5 DEF IInv, ForbidsRightly, CatalogIsVersion, IdOnlyFits
<1> QED
  BY <1>7, <1>8, <1>9, <1>10, <1>11, <1>12 DEF IInv

(* A transaction that ends leaves its run with nothing. *)
LEMMA CloseEmpties ==
  ASSUME TypeOK, NEW m \in Migrators, Close(m),
         NEW l \in {"done", "failed", "crashed", "deadlocked"}, Goto(m, l),
         schema' \in [Databases -> SUBSET Objects],
         version' \in [Databases -> Versions],
         UNCHANGED service
  PROVE  /\ TypeOK'
         /\ start'[m] = at'[m] /\ done'[m] = {} /\ half' = half \ {m}
         /\ HeldBy(m)' = {} /\ OnWay(m)'
<1>1. 0 \in Versions /\ 0 \in Nat
  BY DEF Versions, Latest
<1>2. TypeOK'
  BY <1>1 DEF TypeOK, Close, Goto, service
<1>3. /\ start'[m] = 0 /\ goal'[m] = 0 /\ at'[m] = 0 /\ step'[m] = 0
      /\ done'[m] = {} /\ half' = half \ {m}
  BY DEF Close, TypeOK
<1>4. HeldBy(m)' = {} /\ OnWay(m)'
  BY <1>1, <1>3, NothingDone
<1> QED
  BY <1>2, <1>3, <1>4

LEMMA RollbackIInv ==
  ASSUME IInv, NEW m \in Migrators, Fail(m) \/ Deadlock(m) \/ Crash(m)
  PROVE  IInv'
<1>1. TypeOK
  BY DEF IInv
<1>2. \A n \in Migrators : n # m =>
        /\ start'[n] = start[n] /\ at'[n] = at[n] /\ done'[n] = done[n]
        /\ Rising(n)' <=> Rising(n)
        /\ HeldBy(n)' = HeldBy(n)
        /\ OnWay(n)' <=> OnWay(n)
        /\ InRevision(n)' <=> InRevision(n)
        /\ Statement(n)' = Statement(n)
  BY <1>1, OtherRuns
<1>3. UNCHANGED <<schema, version, idOnly, reads, inserting>>
  BY DEF Fail, Deadlock, Crash, committed, service
<1>4. /\ TypeOK'
      /\ start'[m] = at'[m] /\ done'[m] = {} /\ half' = half \ {m}
      /\ HeldBy(m)' = {} /\ OnWay(m)'
  <2>1. UNCHANGED service
    BY <1>3 DEF service
  <2>2. schema' \in [Databases -> SUBSET Objects] /\ version' \in [Databases -> Versions]
    BY <1>1, <1>3 DEF TypeOK
  <2>3. Close(m) /\ \E l \in {"failed", "deadlocked", "crashed"} : Goto(m, l)
    BY DEF Fail, Deadlock, Crash
  <2> QED
    BY <1>1, <2>1, <2>2, <2>3, CloseEmpties
<1> QED
  BY <1>2, <1>3, <1>4 DEF IInv, OnTheWay, Exclusive, Current, Halfway,
     InsertsProtected, ForbidsRightly, CatalogIsVersion, IdOnlyFits

(* What a run that has arrived installs. *)
LEMMA Arrival ==
  ASSUME IInv, NEW m \in Migrators, Commit(m)
  PROVE  \/ /\ at[m] = start[m] /\ View(m) = schema[Target(m)]
            /\ ViewVersion(m) = version[Target(m)]
         \/ /\ at[m] # start[m] /\ version[Target(m)] = start[m]
            /\ View(m) = SchemaOf(goal[m]) /\ ViewVersion(m) = goal[m]
<1>1. /\ at[m] = goal[m] /\ step[m] = 0
      /\ start[m] \in Versions /\ OnWay(m)
  BY DEF IInv, TypeOK, OnTheWay, OnWay, Commit
<1>2. Ran(m) = {}
  BY <1>1, Firsts DEF Ran
<1>3. CASE at[m] = start[m]
  <2>1. done[m] = {}
    BY <1>1, <1>2, <1>3 DEF OnWay
  <2> QED
    BY <1>3, <2>1 DEF View, ViewVersion
<1>4. CASE at[m] # start[m]
  <2>1. version[Target(m)] = start[m]
    BY <1>4 DEF IInv, Current
  <2>2. View(m) = SchemaOf(goal[m])
    BY <1>1, <1>2, <2>1, UndisturbedView DEF IInv
  <2> QED
    BY <1>1, <1>4, <2>1, <2>2 DEF ViewVersion
<1> QED
  BY <1>3, <1>4

LEMMA CommitIInv ==
  ASSUME IInv, NEW m \in Migrators, Commit(m)
  PROVE  IInv'
<1> DEFINE T == Target(m)
<1>1. TypeOK /\ T \in Databases
  BY TargetType DEF IInv
<1>2. \A n \in Migrators : n # m =>
        /\ start'[n] = start[n] /\ at'[n] = at[n] /\ done'[n] = done[n]
        /\ Rising(n)' <=> Rising(n)
        /\ HeldBy(n)' = HeldBy(n)
        /\ OnWay(n)' <=> OnWay(n)
        /\ InRevision(n)' <=> InRevision(n)
        /\ Statement(n)' = Statement(n)
  BY <1>1, OtherRuns
<1>3. /\ UNCHANGED <<idOnly, reads, inserting>>
      /\ schema'[T] = View(m) /\ version'[T] = ViewVersion(m)
      /\ \A d \in Databases : d # T =>
           schema'[d] = schema[d] /\ version'[d] = version[d]
  BY <1>1 DEF Commit, TypeOK, service
<1>4. goal[m] \in Versions /\ SchemaOf(goal[m]) \in SUBSET Objects
  BY <1>1, UsersIn DEF TypeOK
<1>5. /\ TypeOK'
      /\ start'[m] = at'[m] /\ done'[m] = {} /\ half' = half \ {m}
      /\ HeldBy(m)' = {} /\ OnWay(m)'
  <2>1. View(m) \in SUBSET Objects /\ ViewVersion(m) \in Versions
    BY <1>1, <1>4, Arrival DEF TypeOK
  <2>2. schema' \in [Databases -> SUBSET Objects] /\ version' \in [Databases -> Versions]
    BY <1>1, <2>1 DEF Commit, TypeOK
  <2> QED
    BY <1>1, <2>2, CloseEmpties DEF Commit
<1>6. OnTheWay' /\ Exclusive'
  BY <1>2, <1>5 DEF IInv, OnTheWay, Exclusive
<1>7. Current'
  <2> SUFFICES ASSUME NEW n \in Migrators
               PROVE  /\ at'[n] # start'[n] => version'[Target(n)] = start'[n]
                      /\ \A x \in done'[n] \ {NullEmail} :
                           Rising(n)' <=> x \notin schema'[Target(n)]
    BY DEF Current
  <2>1. CASE n = m
    BY <1>5, <2>1
  <2>2. CASE n # m /\ Target(n) # T
    BY <1>2, <1>3, <2>2, TargetType DEF IInv, Current
  <2>3. CASE n # m /\ Target(n) = T /\ at[m] = start[m]
    BY <1>2, <1>3, <2>3, Arrival DEF IInv, Current
  <2>4. CASE n # m /\ Target(n) = T /\ at[m] # start[m]
    <3>1. HeldBy(m) \cap HeldBy(n) = {}
      BY <2>4 DEF IInv, Exclusive
    <3>2. at[n] = start[n]
      BY <1>1, <2>4, <3>1, HoldsDone
    <3>3. \A x \in done[n] : x \notin done[m]
      BY <1>1, <3>1, HoldsDone
    <3>4. \A x \in done[n] \ {NullEmail} : Rising(n) <=> x \notin View(m)
      BY <2>4, <3>3 DEF IInv, Current, View
    <3> QED
      BY <1>2, <1>3, <2>4, <3>2, <3>4
  <2> QED
    BY <2>1, <2>2, <2>3, <2>4
<1>8. InsertsProtected'
  <2>1. T \in inserting =>
          "users" \in View(m) /\ ("users" \notin reads[T] => NullEmail \in View(m))
    BY <1>1, HoldsDone, Locking DEF IInv, InsertsProtected, View
  <2> QED
    BY <1>1, <1>2, <1>3, <1>5, <2>1 DEF IInv, InsertsProtected, TypeOK
<1>9. ForbidsRightly'
  BY <1>2, <1>3, <1>5 DEF IInv, ForbidsRightly
<1>10. CatalogIsVersion'
  BY <1>1, <1>3, Arrival DEF IInv, CatalogIsVersion
<1>11. IdOnlyFits'
  <2>1. T \in idOnly => at[m] = start[m]
    <3> SUFFICES ASSUME T \in idOnly, at[m] # start[m]
                 PROVE  FALSE
      OBVIOUS
    <3>1. NullEmail \in SchemaOf(start[m]) /\ start[m] \in Versions
      BY <1>1, Arrival DEF IInv, TypeOK, IdOnlyFits, CatalogIsVersion
    <3>2. start[m] = 3
      BY <3>1, UsersIn
    <3>3. at[m] = goal[m] /\ at[m] \in Versions /\ at[m] # 3
      BY <1>1, <3>2 DEF Commit, TypeOK
    <3>4. ~Rising(m)
      BY <3>2, <3>3 DEF Rising, Versions, Latest
    <3>5. NullEmail \notin SchemaOf(at[m])
      BY <3>3, UsersIn
    <3>6. NullEmail \in done[m]
      BY <3>1, <3>4, <3>5 DEF IInv, OnTheWay, OnWay
    <3> QED
      BY <3>4, <3>6 DEF IInv, ForbidsRightly
  <2>2. T \in idOnly => {"users", NullEmail} \subseteq View(m)
    BY <2>1, Arrival DEF IInv, IdOnlyFits
  <2> QED
    BY <1>1, <1>3, <2>2 DEF IInv, IdOnlyFits, TypeOK
<1>12. Halfway'
  <2> SUFFICES ASSUME NEW n \in Migrators, n \in half, n # m, ~Rising(n)
               PROVE  Statement(n) \in schema'[Target(n)]
    BY <1>1, <1>2, <1>5 DEF IInv, Halfway, TypeOK
  <2>1. /\ n \in Migrators /\ Target(n) \in Databases
        /\ References(Statement(n)) # {} /\ Statement(n) \in schema[Target(n)]
    BY <1>1, TargetType DEF IInv, Halfway, TypeOK
  <2>2. CASE Target(n) # T
    BY <1>3, <2>1, <2>2
  <2>3. CASE Target(n) = T
    <3>1. Statement(n) \in Tables /\ Statement(n) \in HeldBy(n)
      BY <2>1, Locking DEF HeldBy
    <3>2. Statement(n) \notin done[m]
      BY <1>1, <2>1, <2>3, <3>1, HoldsDone DEF IInv, Exclusive
    <3> QED
      BY <1>3, <2>1, <2>3, <3>2 DEF View
  <2> QED
    BY <2>2, <2>3
<1> QED
  BY <1>5, <1>6, <1>7, <1>8, <1>9, <1>10, <1>11, <1>12 DEF IInv

LEMMA ServiceIInv ==
  ASSUME IInv, NEW d \in Served,
         (\E t \in Lookups : Read(d, t)) \/ Insert(d) \/ End(d)
  PROVE  IInv'
<1>1. UNCHANGED <<schema, version, pc, start, goal, at, step, half, done>>
  BY DEF Read, Insert, End, committed, run
<1>2. \A n \in Migrators :
        /\ Rising(n)' <=> Rising(n)
        /\ HeldBy(n)' = HeldBy(n)
        /\ OnWay(n)' <=> OnWay(n)
        /\ InRevision(n)' <=> InRevision(n)
        /\ Statement(n)' = Statement(n)
  BY <1>1, SameRun
<1>3. OnTheWay' /\ Exclusive' /\ Current' /\ Halfway' /\ CatalogIsVersion'
  BY <1>1, <1>2 DEF IInv, OnTheWay, Exclusive, Current, Halfway, CatalogIsVersion
<1>4. d \in Databases
  BY DEF Served, Databases
<1>5. CASE \E t \in Lookups : Read(d, t)
  <2>1. /\ TypeOK' /\ UNCHANGED <<idOnly, inserting>> /\ d \notin inserting
        /\ \A e \in Databases : e # d => reads'[e] = reads[e]
    BY <1>1, <1>4, <1>5 DEF IInv, TypeOK, Read
  <2>2. InsertsProtected'
    BY <1>1, <1>2, <2>1 DEF IInv, TypeOK, InsertsProtected
  <2>3. ForbidsRightly' /\ IdOnlyFits'
    BY <1>1, <1>2, <2>1 DEF IInv, ForbidsRightly, IdOnlyFits
  <2> QED
    BY <1>3, <2>1, <2>2, <2>3 DEF IInv
<1>6. CASE Insert(d)
  <2>1. TypeOK'
    BY <1>1, <1>4, <1>6 DEF IInv, TypeOK, Insert
  <2>2. InsertsProtected'
    BY <1>1, <1>2, <1>6 DEF IInv, InsertsProtected, Insert
  <2>3. ForbidsRightly' /\ IdOnlyFits'
    BY <1>1, <1>2, <1>6 DEF IInv, ForbidsRightly, IdOnlyFits, Insert
  <2> QED
    BY <1>3, <2>1, <2>2, <2>3 DEF IInv
<1>7. CASE End(d)
  <2>1. TypeOK'
    BY <1>1, <1>4, <1>7 DEF IInv, TypeOK, End
  <2>2. InsertsProtected'
    <3>1. inserting' = inserting \ {d} /\ \A e \in Databases : e # d => reads'[e] = reads[e]
      BY <1>7 DEF IInv, TypeOK, End
    <3> QED
      BY <1>1, <1>2, <3>1 DEF IInv, TypeOK, InsertsProtected
  <2>3. idOnly' = idOnly \/ /\ idOnly' = idOnly \cup {d} /\ d \in inserting
                            /\ "users" \notin reads[d]
    BY <1>7 DEF End
  <2>4. ForbidsRightly'
    <3>1. d \in inserting =>
            \A m \in Migrators : Target(m) = d => NullEmail \notin done[m]
      BY HoldsDone DEF IInv, InsertsProtected
    <3> QED
      BY <1>1, <1>2, <2>3, <3>1 DEF IInv, ForbidsRightly
  <2>5. IdOnlyFits'
    BY <1>1, <2>3 DEF IInv, IdOnlyFits, InsertsProtected
  <2> QED
    BY <1>3, <2>1, <2>2, <2>4, <2>5 DEF IInv
<1> QED
  BY <1>5, <1>6, <1>7

LEMMA ServeIInv ==
  ASSUME IInv, NEW m \in Migrators, Serve(m)
  PROVE  IInv'
<1>1. /\ UNCHANGED <<schema, version, idOnly, reads, inserting>>
      /\ UNCHANGED <<start, goal, at, step, half, done>>
  BY DEF Serve, committed, service, run
<1>2. TypeOK'
  BY <1>1 DEF IInv, TypeOK, Serve, Goto
<1>3. m \notin half
  BY DEF IInv, TypeOK, Serve
<1>4. \A n \in Migrators :
        /\ Rising(n)' <=> Rising(n)
        /\ Statement(n)' = Statement(n)
        /\ HeldBy(n)' = HeldBy(n)
        /\ OnWay(n)' <=> OnWay(n)
  BY <1>1 DEF Rising, Statement, Script, HeldBy, OnWay, Ran
<1>5. \A n \in Migrators : n # m => (InRevision(n)' <=> InRevision(n))
  BY OtherRuns DEF IInv
<1> QED
  BY <1>1, <1>2, <1>3, <1>4, <1>5 DEF IInv, OnTheWay, Exclusive, Current,
     Halfway, InsertsProtected, ForbidsRightly, CatalogIsVersion, IdOnlyFits

LEMMA StutterIInv ==
  ASSUME IInv, UNCHANGED vars
  PROVE  IInv'
<1>1. /\ UNCHANGED <<schema, version, idOnly, reads, inserting, pc>>
      /\ UNCHANGED <<start, goal, at, step, half, done>>
  BY DEF vars, committed, service, run
<1>2. TypeOK'
  BY <1>1 DEF IInv, TypeOK
<1>3. \A n \in Migrators :
        /\ Rising(n)' <=> Rising(n)
        /\ HeldBy(n)' = HeldBy(n)
        /\ OnWay(n)' <=> OnWay(n)
        /\ InRevision(n)' <=> InRevision(n)
        /\ Statement(n)' = Statement(n)
  BY <1>1, SameRun
<1> QED
  BY <1>1, <1>2, <1>3 DEF IInv, OnTheWay, Exclusive, Current, Halfway,
     InsertsProtected, ForbidsRightly, CatalogIsVersion, IdOnlyFits

LEMMA NextIInv ==
  ASSUME IInv, [Next]_vars
  PROVE  IInv'
<1>1. ASSUME NEW m \in Migrators, Begin(m) PROVE IInv'
  BY <1>1, BeginIInv
<1>2. ASSUME NEW m \in Migrators, Execute(m) PROVE IInv'
  BY <1>2, ExecuteIInv
<1>3. ASSUME NEW m \in Migrators, Stamp(m) PROVE IInv'
  BY <1>3, StampIInv
<1>4. ASSUME NEW m \in Migrators, Fail(m) \/ Deadlock(m) \/ Crash(m) PROVE IInv'
  BY <1>4, RollbackIInv
<1>5. ASSUME NEW m \in Migrators, Commit(m) PROVE IInv'
  BY <1>5, CommitIInv
<1>6. ASSUME NEW m \in Migrators, Serve(m) PROVE IInv'
  BY <1>6, ServeIInv
<1>7. ASSUME NEW m \in Migrators, Open(m) PROVE IInv'
  BY <1>7, OpenIInv
<1>8. ASSUME NEW d \in Served,
             (\E t \in Lookups : Read(d, t)) \/ Insert(d) \/ End(d)
      PROVE  IInv'
  BY <1>8, ServiceIInv
<1>9. CASE Terminating \/ UNCHANGED vars
  BY <1>9, StutterIInv DEF Terminating
<1> QED
  BY <1>1, <1>2, <1>3, <1>4, <1>5, <1>6, <1>7, <1>8, <1>9 DEF Next

LEMMA Invariance == Spec => []IInv
<1>1. Init => IInv
  BY InitIInv
<1>2. IInv /\ [Next]_vars => IInv'
  BY NextIInv
<1> QED
  BY <1>1, <1>2, PTL DEF Spec

(* Every reachable state has the shape that the declarations promise.      *)
THEOREM TypeCorrect == Spec => []TypeOK
BY Invariance, PTL DEF IInv

(* What is committed in a database is what its alembic_version says, for   *)
(* any number of upgrades and downgrades that overlap and die half way.    *)
THEOREM SchemaIsVersion == Spec => []CatalogIsVersion
BY Invariance, PTL DEF IInv

(* No migration takes users.email NULL away from under a user without      *)
(* e-mail, not even from under one whose insert is still open.             *)
THEOREM IdOnlyKept == Spec => []IdOnlyFits
BY Invariance, PTL DEF IInv

-----------------------------------------------------------------------------
(* What a run may change, and why it may fail. *)

(* Only a commit changes the version of a database, and only when the      *)
(* database still is at the version its run has read.                      *)
LEMMA OnlyCommitsMove ==
  ASSUME IInv, [Next]_vars, NEW d \in Databases, version'[d] # version[d]
  PROVE  \E m \in Migrators : /\ Commit(m) /\ Target(m) = d
                              /\ at[m] # start[m]
                              /\ start[m] = version[d]
                              /\ goal[m] = version'[d]
<1>1. \E m \in Migrators : Commit(m)
  BY DEF Next, Begin, Open, Execute, Stamp, Fail, Deadlock, Crash, Serve, Read,
         Insert, End, Terminating, vars, committed
<1>2. PICK m \in Migrators : Commit(m)
  BY <1>1
<1>3. Target(m) = d /\ version'[d] = ViewVersion(m)
  BY <1>2 DEF Commit, IInv, TypeOK
<1> QED
  BY <1>2, <1>3, Arrival

(* A run that has read a stale version moves no database: it only ever     *)
(* takes one from the version the run has read to the one it was told to   *)
(* reach.                                                                  *)
THEOREM MovesOnlyAsTold == Spec => MovesAsTold
<1>1. IInv /\ [Next]_vars =>
        [\A d \in Databases :
           version'[d] # version[d] =>
             \E m \in Migrators : /\ Target(m) = d
                                  /\ start[m] = version[d]
                                  /\ goal[m] = version'[d]]_vars
  BY OnlyCommitsMove
<1> QED
  BY <1>1, Invariance, PTL DEF Spec, MovesAsTold

(* A run ends in failure, or as a victim, only by the action of that name. *)
LEMMA Endings ==
  ASSUME IInv, [Next]_vars, NEW m \in Migrators
  PROVE  /\ pc'[m] = "failed" /\ pc[m] # "failed" => Fail(m)
         /\ pc'[m] = "deadlocked" /\ pc[m] # "deadlocked" => Deadlock(m)
<1> SUFFICES ASSUME NEW l \in {"failed", "deadlocked"}, pc'[m] = l, pc[m] # l
             PROVE  (l = "failed" => Fail(m)) /\ (l = "deadlocked" => Deadlock(m))
  OBVIOUS
<1>1. TypeOK
  BY DEF IInv
<1>2. PICK n \in Migrators :
        Begin(n) \/ Open(n) \/ Execute(n) \/ Stamp(n) \/ Fail(n) \/ Deadlock(n)
          \/ Commit(n) \/ Crash(n) \/ Serve(n)
  BY DEF Next, Read, Insert, End, Terminating, vars
<1>3. n = m
  BY <1>1, <1>2, OtherRuns
<1>4. ~Open(m) /\ ~Execute(m) /\ ~Stamp(m)
  BY DEF Open, Execute, Stamp
<1>5. ~Begin(m) /\ ~Commit(m) /\ ~Crash(m) /\ ~Serve(m)
  BY <1>1 DEF Begin, Commit, Crash, Serve, Goto, TypeOK
<1>6. (Fail(m) => pc'[m] = "failed") /\ (Deadlock(m) => pc'[m] = "deadlocked")
  BY <1>1 DEF Fail, Deadlock, Goto, TypeOK
<1> QED
  BY <1>2, <1>3, <1>4, <1>5, <1>6

(* Nothing that a run does is refused as long as the version is the one it *)
(* has read, but to forbid users without e-mail where there is one.        *)
LEMMA FailureHasCause ==
  ASSUME IInv, NEW m \in Migrators, Fail(m)
  PROVE  \/ version[Target(m)] # start[m]
         \/ ~Rising(m) /\ Statement(m) = NullEmail /\ Target(m) \in idOnly
<1> SUFFICES ASSUME version[Target(m)] = start[m]
             PROVE  ~Rising(m) /\ Statement(m) = NullEmail /\ Target(m) \in idOnly
  OBVIOUS
<1>1. CASE InRevision(m) /\ Refused(m, Statement(m))
  BY <1>1, StatementFits DEF IInv
<1>2. ~Outdated(m)
  BY DEF Outdated, ViewVersion
<1> QED
  BY <1>1, <1>2 DEF Fail, Granted

(* A migration fails only if the version of its database is no longer the  *)
(* one it has read, or if it is a downgrade that meets a user without      *)
(* e-mail: one that nobody overtakes goes through, in both directions and  *)
(* from every version.                                                     *)
THEOREM FailsForCause == Spec => FailuresHaveCause
<1>1. IInv /\ [Next]_vars =>
        [\A m \in Migrators :
           pc'[m] = "failed" /\ pc[m] # "failed" =>
             \/ version[Target(m)] # start[m]
             \/ /\ ~Rising(m) /\ Statement(m) = NullEmail
                /\ Target(m) \in idOnly]_vars
  BY Endings, FailureHasCause
<1> QED
  BY <1>1, Invariance, PTL DEF Spec, FailuresHaveCause

-----------------------------------------------------------------------------
(* Deadlocks. *)

(* The statements that lock only one table, and the places where some      *)
(* objects are made and dropped.                                           *)
LEMMA MadeAt ==
  ASSUME NEW q \in 1..3, NEW k \in Nat, k < Len(Upgrade[q])
  PROVE  /\ Upgrade[q][k + 1] = NullEmail => q = 3 /\ k = 0
         /\ Upgrade[q][k + 1] = "oauth_states" => q = 2 /\ k = 0
         /\ Upgrade[q][k + 1] = "oauth_codes" => q = 2 /\ k = 1
         /\ Subject(Upgrade[q][k + 1]) = "refresh_tokens" => q = 1 /\ k \in {3, 4}
<1>1. \/ q = 1 /\ k \in {0, 1, 2, 3, 4}
      \/ q = 2 /\ k \in {0, 1}
      \/ q = 3 /\ k = 0
  BY Places
<1>2. /\ NullEmail \notin Tables /\ ChainIndex \notin Tables /\ ChainIndex # NullEmail
      /\ {"users", "auth_identities", "password_resets", "refresh_tokens",
          "oauth_states", "oauth_codes"} \subseteq Tables
  BY Distinct DEF Tables
<1>3. CASE q = 1
  BY <1>1, <1>2, <1>3, Scripts, Locking
<1>4. CASE q = 2
  BY <1>1, <1>2, <1>4, Scripts, Locking
<1>5. CASE q = 3
  BY <1>1, <1>2, <1>5, Scripts, Locking
<1> QED
  BY <1>1, <1>3, <1>4, <1>5

LEMMA DroppedAt ==
  ASSUME NEW q \in 1..3, NEW k \in Nat, k < Len(Downgrade[q])
  PROVE  /\ Downgrade[q][k + 1] = "oauth_codes" => q = 2 /\ k = 0
         /\ Subject(Downgrade[q][k + 1]) = "refresh_tokens" => q = 1 /\ k \in {0, 1}
         /\ k = 0 /\ References(Downgrade[q][k + 1]) # {} =>
              q = 2 /\ Downgrade[q][k + 1] = "oauth_codes"
<1>1. \/ q = 1 /\ k \in {0, 1, 2, 3, 4}
      \/ q = 2 /\ k \in {0, 1}
      \/ q = 3 /\ k = 0
  BY Places
<1>2. /\ NullEmail \notin Tables /\ ChainIndex \notin Tables /\ ChainIndex # NullEmail
      /\ {"users", "auth_identities", "password_resets", "refresh_tokens",
          "oauth_states", "oauth_codes"} \subseteq Tables
  BY Distinct DEF Tables
<1>3. CASE q = 1
  BY <1>1, <1>2, <1>3, Scripts, Locking
<1>4. CASE q = 2
  BY <1>1, <1>2, <1>4, Scripts, Locking
<1>5. CASE q = 3
  BY <1>1, <1>2, <1>5, Scripts, Locking
<1> QED
  BY <1>1, <1>3, <1>4, <1>5

(* Every revision changes users, or a table that refers to it. *)
LEMMA StampedHoldsUsers ==
  ASSUME TypeOK, OnTheWay, NEW m \in Migrators, at[m] # start[m]
  PROVE  "users" \in HeldBy(m)
<1>1. start[m] \in 0..3 /\ at[m] \in 0..3 /\ goal[m] \in 0..3
  BY DEF TypeOK, Versions, Latest
<1>2. \A v \in 0..3, w \in 0..3 :
        v < w => \E x \in SchemaOf(w) \ SchemaOf(v) : "users" \in Locks(x)
  <2> SUFFICES ASSUME NEW v \in 0..3, NEW w \in 0..3, v < w
               PROVE  \E x \in SchemaOf(w) \ SchemaOf(v) : "users" \in Locks(x)
    OBVIOUS
  <2>1. /\ "users" \in Locks("users") /\ "users" \in Locks(NullEmail)
        /\ "users" \in Locks("oauth_codes")
    BY Locking DEF Locks, Tables
  <2>2. CASE v = 0
    <3>1. "users" \in SchemaOf(w) /\ "users" \notin SchemaOf(v)
      BY <2>2, UsersIn DEF Versions, Latest
    <3> QED
      BY <2>1, <3>1
  <2>3. CASE v = 1
    <3>1. w = 2 \/ w = 3
      BY <2>3
    <3>2. "oauth_codes" \in Tables /\ Tables \subseteq Objects
      BY Distinct DEF Tables
    <3>3. "oauth_codes" \in SchemaOf(w) /\ "oauth_codes" \notin SchemaOf(v)
      BY <2>3, <3>1, <3>2, Versioning, Distinct
    <3> QED
      BY <2>1, <3>3
  <2>4. CASE v = 2
    <3>1. NullEmail \in SchemaOf(w) /\ NullEmail \notin SchemaOf(v)
      BY <2>4, UsersIn DEF Versions, Latest
    <3> QED
      BY <2>1, <3>1
  <2> QED
    BY <2>2, <2>3, <2>4
<1>3. \E x \in done[m] : "users" \in Locks(x)
  <2>1. CASE Rising(m)
    <3>1. start[m] < at[m]
      BY <1>1, <2>1 DEF OnTheWay, OnWay, Rising
    <3> QED
      BY <1>1, <1>2, <2>1, <3>1 DEF OnTheWay, OnWay
  <2>2. CASE ~Rising(m)
    <3>1. at[m] < start[m]
      BY <1>1, <2>2 DEF OnTheWay, OnWay, Rising
    <3> QED
      BY <1>1, <1>2, <2>2, <3>1 DEF OnTheWay, OnWay
  <2> QED
    BY <2>1, <2>2
<1> QED
  BY <1>3 DEF HeldBy

(* An upgrade makes oauth_states before oauth_codes. *)
LEMMA StatesBeforeCodes ==
  ASSUME TypeOK, OnTheWay, NEW m \in Migrators, Rising(m),
         "oauth_codes" \in done[m]
  PROVE  "oauth_states" \in done[m]
<1>1. /\ start[m] \in 0..3 /\ at[m] \in 0..3 /\ goal[m] \in 0..3
      /\ step[m] \in Nat
      /\ done[m] = Ran(m) \cup (SchemaOf(at[m]) \ SchemaOf(start[m]))
  BY DEF TypeOK, OnTheWay, OnWay, Versions, Latest
<1>2. \A v \in 0..3 : "oauth_codes" \in SchemaOf(v) <=> "oauth_states" \in SchemaOf(v)
  BY Versioning, Distinct DEF Tables
<1>3. CASE "oauth_codes" \in Ran(m)
  <2>1. at[m] # goal[m]
    <3> SUFFICES ASSUME at[m] = goal[m]
                 PROVE  FALSE
      OBVIOUS
    <3>1. Ran(m) = {}
      BY Firsts DEF OnTheWay, OnWay, Ran
    <3> QED
      BY <1>3, <3>1
  <2>2. PICK q \in 1..3 : Script(m) = Upgrade[q]
    BY <2>1, NextRevision
  <2>3. step[m] <= Len(Upgrade[q])
    BY <2>1, <2>2 DEF OnTheWay, OnWay
  <2>4. Ran(m) = First(Upgrade[q], step[m])
    BY <2>2 DEF Ran
  <2>5. step[m] # 0 /\ step[m] - 1 \in Nat /\ step[m] - 1 + 1 = step[m]
    BY <1>1, <1>3, Firsts DEF Ran
  <2>6. PICK k \in Nat : k < Len(Upgrade[q]) /\ k < step[m] /\ Upgrade[q][k + 1] = "oauth_codes"
    <3>1. PICK j \in 1..step[m] : Upgrade[q][j] = "oauth_codes"
      BY <1>3, <2>4 DEF First
    <3>2. j - 1 \in Nat /\ (j - 1) + 1 = j /\ j - 1 < step[m] /\ j - 1 < Len(Upgrade[q])
      BY <1>1, <2>3, <3>1, Revisions
    <3> QED
      BY <3>1, <3>2
  <2>7. q = 2 /\ k = 1
    BY <2>6, MadeAt
  <2>8. 1 \in 1..step[m]
    BY <1>1, <2>6, <2>7
  <2>9. "oauth_states" \in First(Upgrade[2], step[m])
    BY <2>8, Scripts DEF First
  <2> QED
    BY <1>1, <2>4, <2>7, <2>9
<1> QED
  BY <1>1, <1>2, <1>3

(* A run that stands where it has started holds at most one lock. *)
LEMMA FreshHolds ==
  ASSUME TypeOK, OnTheWay, NEW m \in Migrators, at[m] = start[m], step[m] = 0
  PROVE  /\ done[m] = {}
         /\ m \in half => HeldBy(m) = {Subject(Statement(m))}
         /\ m \notin half => HeldBy(m) = {}
<1>1. Ran(m) = {}
  BY Firsts DEF Ran
<1>2. done[m] = {}
  BY <1>1 DEF OnTheWay, OnWay
<1> QED
  BY <1>2 DEF HeldBy

(* After the first k statements of a script users is locked, but in two    *)
(* places.                                                                 *)
LEMMA FirstLocks ==
  ASSUME NEW q \in 1..3, NEW k \in Nat, k # 0
  PROVE  /\ k <= Len(Downgrade[q]) =>
              \/ q = 1 /\ k = 1
              \/ \E x \in First(Downgrade[q], k) : "users" \in Locks(x)
         /\ k <= Len(Upgrade[q]) =>
              \/ q = 2 /\ k = 1
              \/ \E x \in First(Upgrade[q], k) : "users" \in Locks(x)
<1>1. \A s : s[1] \in First(s, k)
  BY DEF First
<1>2. k # 1 => \A s : s[2] \in First(s, k)
  BY DEF First
<1>3. /\ "users" \in Locks("users") /\ "users" \in Locks(NullEmail)
      /\ "users" \in Locks("oauth_codes") /\ "users" \in Locks("refresh_tokens")
  BY Locking DEF Locks, Tables
<1>4. CASE q = 1
  BY <1>1, <1>2, <1>3, <1>4, Scripts
<1>5. CASE q = 2
  BY <1>1, <1>2, <1>3, <1>5, Scripts
<1>6. CASE q = 3
  BY <1>1, <1>3, <1>6, Scripts
<1> QED
  BY <1>4, <1>5, <1>6

(* Three kinds of runs hold something and not users: an upgrade that has   *)
(* made oauth_states and nothing more, and downgrades that have dropped    *)
(* the index of refresh_tokens, or are about to drop oauth_codes.          *)
OnlyStates(m) ==
  /\ Rising(m) /\ at[m] = 1 /\ start[m] = 1 /\ step[m] = 1
  /\ done[m] = {"oauth_states"}

OnlyIndex(m) ==
  /\ ~Rising(m) /\ at[m] = 1 /\ start[m] = 1 /\ step[m] = 1
  /\ done[m] = {ChainIndex}

OnlyCodes(m) ==
  /\ ~Rising(m) /\ at[m] = 2 /\ start[m] = 2 /\ step[m] = 0
  /\ done[m] = {} /\ m \in half

Little(m) == OnlyStates(m) \/ OnlyIndex(m) \/ OnlyCodes(m)

LEMMA Kinds ==
  ASSUME IInv, NEW m \in Migrators, HeldBy(m) # {}, "users" \notin HeldBy(m)
  PROVE  Little(m)
<1>1. TypeOK /\ OnTheWay /\ Halfway
  BY DEF IInv
<1>2. at[m] = start[m]
  BY <1>1, StampedHoldsUsers
<1>3. at[m] # goal[m]
  <2> SUFFICES ASSUME at[m] = goal[m]
               PROVE  FALSE
    OBVIOUS
  <2>1. step[m] = 0 /\ m \notin half
    BY <1>1 DEF OnTheWay, OnWay, Halfway, InRevision
  <2> QED
    BY <1>1, <1>2, <2>1, FreshHolds
<1>4. step[m] \in Nat /\ step[m] <= Len(Script(m))
  BY <1>1, <1>3 DEF TypeOK, OnTheWay, OnWay
<1>5. done[m] = First(Script(m), step[m])
  BY <1>1, <1>2 DEF OnTheWay, OnWay, Ran
<1>6. \A x \in First(Script(m), step[m]) : "users" \notin Locks(x)
  BY <1>5 DEF HeldBy
<1>7. step[m] = 0 => m \in half /\ References(Script(m)[1]) # {}
  BY <1>1, <1>2, FreshHolds DEF Halfway, Statement
<1>8. CASE Rising(m)
  <2>1. PICK q \in 1..3 : at[m] + 1 = q /\ Script(m) = Upgrade[q]
    BY <1>1, <1>3, <1>8, NextRevision
  <2>2. References(Upgrade[q][1]) = {}
    BY Scripts, Locking
  <2>3. q = 2 /\ step[m] = 1
    BY <1>4, <1>6, <1>7, <2>1, <2>2, FirstLocks
  <2>4. at[m] = 1
    BY <1>1, <2>1, <2>3 DEF TypeOK, Versions, Latest
  <2>5. done[m] = {"oauth_states"}
    BY <1>5, <2>1, <2>3, Prefixes
  <2> QED
    BY <1>2, <1>8, <2>3, <2>4, <2>5 DEF OnlyStates, Little
<1>9. CASE ~Rising(m)
  <2>1. PICK q \in 1..3 : at[m] = q /\ Script(m) = Downgrade[q]
    BY <1>1, <1>3, <1>9, NextRevision
  <2>2. CASE step[m] = 0
    <3>1. References(Downgrade[q][1]) # {} => q = 2
      BY Scripts, Locking
    <3>2. done[m] = {}
      BY <1>5, <2>2, Firsts
    <3> QED
      BY <1>2, <1>7, <1>9, <2>1, <2>2, <3>1, <3>2 DEF OnlyCodes, Little
  <2>3. CASE step[m] # 0
    <3>1. q = 1 /\ step[m] = 1
      BY <1>4, <1>6, <2>1, <2>3, FirstLocks
    <3>2. done[m] = {ChainIndex}
      BY <1>5, <2>1, <3>1, Prefixes
    <3> QED
      BY <1>2, <1>9, <2>1, <3>1, <3>2 DEF OnlyIndex, Little
  <2> QED
    BY <2>2, <2>3
<1> QED
  BY <1>8, <1>9

(* What they hold, and where they stand. *)
LEMMA LittleHolds ==
  ASSUME NEW m \in Migrators
  PROVE  /\ OnlyStates(m) =>
              /\ "oauth_states" \in HeldBy(m)
              /\ HeldBy(m) \subseteq {"oauth_states", "oauth_codes"}
              /\ Statement(m) = "oauth_codes" /\ ~AtStamp(m)
         /\ OnlyIndex(m) =>
              /\ HeldBy(m) = {"refresh_tokens"}
              /\ Statement(m) = "refresh_tokens" /\ ~AtStamp(m)
         /\ OnlyCodes(m) =>
              /\ HeldBy(m) = {"oauth_codes"}
              /\ Statement(m) = "oauth_codes" /\ ~AtStamp(m)
<1>1. /\ Locks("oauth_states") = {"oauth_states"}
      /\ Locks(ChainIndex) = {"refresh_tokens"}
      /\ Subject("oauth_codes") = "oauth_codes"
      /\ Subject("refresh_tokens") = "refresh_tokens"
  BY Locking DEF Locks, Tables
<1>2. ASSUME OnlyStates(m)
      PROVE  /\ "oauth_states" \in HeldBy(m)
             /\ HeldBy(m) \subseteq {"oauth_states", "oauth_codes"}
             /\ Statement(m) = "oauth_codes" /\ ~AtStamp(m)
  <2>1. Script(m) = Upgrade[2] /\ step[m] = 1
    BY <1>2 DEF OnlyStates, Script
  <2>2. Statement(m) = "oauth_codes" /\ ~AtStamp(m)
    BY <2>1, Scripts DEF Statement, AtStamp
  <2> QED
    BY <1>1, <1>2, <2>2 DEF OnlyStates, HeldBy
<1>3. ASSUME OnlyIndex(m)
      PROVE  /\ HeldBy(m) = {"refresh_tokens"}
             /\ Statement(m) = "refresh_tokens" /\ ~AtStamp(m)
  <2>1. Script(m) = Downgrade[1] /\ step[m] = 1
    BY <1>3 DEF OnlyIndex, Script
  <2>2. Statement(m) = "refresh_tokens" /\ ~AtStamp(m)
    BY <2>1, Scripts DEF Statement, AtStamp
  <2> QED
    BY <1>1, <1>3, <2>2 DEF OnlyIndex, HeldBy
<1>4. ASSUME OnlyCodes(m)
      PROVE  /\ HeldBy(m) = {"oauth_codes"}
             /\ Statement(m) = "oauth_codes" /\ ~AtStamp(m)
  <2>1. Script(m) = Downgrade[2] /\ step[m] = 0
    BY <1>4 DEF OnlyCodes, Script
  <2>2. Statement(m) = "oauth_codes" /\ ~AtStamp(m)
    BY <2>1, Scripts DEF Statement, AtStamp
  <2> QED
    BY <1>1, <1>4, <2>2 DEF OnlyCodes, HeldBy
<1> QED
  BY <1>2, <1>3, <1>4

(* Where one of the first kind is, the tables of the second revision are   *)
(* not there yet.                                                          *)
LEMMA StatesMissing ==
  ASSUME IInv, NEW m \in Migrators, OnlyStates(m)
  PROVE  /\ version[Target(m)] \in {0, 1}
         /\ "oauth_states" \notin schema[Target(m)]
         /\ "oauth_codes" \notin schema[Target(m)]
<1> DEFINE T == Target(m)
<1>1. "oauth_states" \in Tables /\ "oauth_codes" \in Tables
  BY DEF Tables
<1>2. "oauth_states" \notin schema[T]
  BY <1>1, Distinct DEF IInv, Current, OnlyStates
<1>3. version[T] \in 0..3 /\ schema[T] = SchemaOf(version[T])
  BY TargetType DEF IInv, TypeOK, CatalogIsVersion, Versions, Latest
<1>4. "oauth_states" \in SchemaOf(2) /\ "oauth_states" \in SchemaOf(3)
  BY <1>1, Versioning, Distinct
<1>5. version[T] \in {0, 1}
  BY <1>2, <1>3, <1>4
<1>6. "oauth_codes" \notin SchemaOf(0) /\ "oauth_codes" \notin SchemaOf(1)
  BY <1>1, Versioning, Distinct
<1> QED
  BY <1>2, <1>3, <1>5, <1>6

(* Who holds oauth_codes has made oauth_states, too, or finds oauth_codes. *)
LEMMA CodesHeld ==
  ASSUME IInv, NEW m \in Migrators, "oauth_codes" \in HeldBy(m)
  PROVE  /\ Rising(m) => "oauth_states" \in HeldBy(m)
         /\ ~Rising(m) => "oauth_codes" \in schema[Target(m)]
<1>1. TypeOK /\ OnTheWay
  BY DEF IInv
<1>2. /\ "oauth_codes" \in Tables /\ "oauth_states" \in Tables
      /\ "oauth_codes" # NullEmail /\ "oauth_codes" # VersionTable
  BY Distinct DEF Tables
<1>3. \A x \in Objects : "oauth_codes" \in Locks(x) => x = "oauth_codes"
  BY Locking, Distinct DEF Locks
<1>4. "oauth_codes" \in done[m] \/ (m \in half /\ Statement(m) = "oauth_codes")
  <2>1. \/ \E x \in done[m] : "oauth_codes" \in Locks(x)
        \/ m \in half /\ Subject(Statement(m)) = "oauth_codes"
    BY <1>2 DEF HeldBy
  <2>2. m \in half => Subject(Statement(m)) = Statement(m)
    BY Locking DEF IInv, Halfway
  <2>3. done[m] \subseteq Objects
    BY <1>1 DEF TypeOK
  <2> QED
    BY <1>3, <2>1, <2>2, <2>3
<1>5. CASE "oauth_codes" \in done[m]
  <2>1. Rising(m) => "oauth_states" \in done[m]
    BY <1>1, <1>5, StatesBeforeCodes
  <2> QED
    BY <1>1, <1>2, <1>5, <2>1, HoldsDone DEF IInv, Current
<1>6. CASE m \in half /\ Statement(m) = "oauth_codes"
  <2>1. ~Rising(m) => "oauth_codes" \in schema[Target(m)]
    BY <1>6 DEF IInv, Halfway
  <2>2. ASSUME Rising(m)
        PROVE  "oauth_states" \in HeldBy(m)
    <3>1. InRevision(m) /\ step[m] \in Nat
      BY <1>1, <1>6 DEF IInv, Halfway, TypeOK
    <3>2. PICK q \in 1..3 : Script(m) = Upgrade[q]
      BY <1>1, <2>2, <3>1, NextRevision DEF InRevision
    <3>3. q = 2 /\ step[m] = 1
      BY <1>6, <3>1, <3>2, MadeAt DEF InRevision, Statement
    <3>4. "oauth_states" \in Ran(m)
      BY <3>2, <3>3, Prefixes DEF Ran
    <3>5. "oauth_states" \in done[m]
      BY <1>1, <3>4 DEF OnTheWay, OnWay
    <3> QED
      BY <1>1, <1>2, <3>5, HoldsDone
  <2> QED
    BY <2>1, <2>2
<1> QED
  BY <1>4, <1>5, <1>6

(* Whom a run that holds users waits for: an upgrade that has started from *)
(* an empty database for one that makes the second revision there; and a   *)
(* downgrade for a downgrade from a version that has passed.               *)
LEMMA BigWaits ==
  ASSUME IInv, NEW b \in Migrators, NEW c \in Migrators,
         "users" \in HeldBy(b), c \in WaitsFor(b)
  PROVE  \/ /\ OnlyStates(c) /\ Rising(b) /\ at[b] # start[b]
            /\ version[Target(b)] = 0
         \/ /\ OnlyIndex(c) \/ OnlyCodes(c)
            /\ ~Rising(b) /\ start[c] # version[Target(b)]
<1> DEFINE T == Target(b)
           x == Statement(b)
           k == step[b]
<1>1. TypeOK /\ OnTheWay
  BY DEF IInv
<1>2. b # c /\ Target(c) = T /\ Needs(b) \cap HeldBy(c) # {}
  BY DEF WaitsFor
<1>3. HeldBy(b) \cap HeldBy(c) = {}
  BY <1>2 DEF IInv, Exclusive
<1>4. Little(c)
  BY <1>2, <1>3, Kinds
<1>5. PICK t \in Needs(b) : t \in HeldBy(c)
  BY <1>2
<1>6. t \in {"oauth_states", "oauth_codes", "refresh_tokens"}
        /\ t # VersionTable /\ t # "users"
  BY <1>4, <1>5, LittleHolds DEF Little, VersionTable
<1>7. /\ InRevision(b) /\ t = Subject(x) /\ (Naming(b) <=> t \notin View(b))
  BY <1>5, <1>6, Locking DEF Needs
<1>8. /\ k \in Nat /\ k < Len(Script(b)) /\ x = Script(b)[k + 1]
      /\ x \in Objects
      /\ start[b] \in 0..3 /\ at[b] \in 0..3 /\ goal[b] \in 0..3 /\ OnWay(b)
  BY <1>1, <1>7, StatementFits
     DEF IInv, InRevision, TypeOK, Statement, Versions, Latest, OnTheWay
<1>9. Ran(b) = First(Script(b), k) /\ Ran(b) \subseteq done[b]
  BY <1>8 DEF Ran, OnWay
<1>10. at[b] # start[b] => version[T] = start[b]
  BY DEF IInv, Current
<1>11. k = 0 /\ References(x) = {} => at[b] # start[b]
  BY <1>1, FreshHolds DEF IInv, Halfway
<1>12. t # "refresh_tokens" => x = t
  BY <1>6, <1>7, <1>8, Locking, Distinct
<1>13. version[T] \in Versions /\ schema[T] = SchemaOf(version[T])
  BY <1>1, TargetType DEF IInv, TypeOK, CatalogIsVersion
<1>14. Rising(b) => \E q \in 1..3 : q = at[b] + 1 /\ Script(b) = Upgrade[q]
  BY <1>1, <1>7, NextRevision DEF InRevision
<1>15. ~Rising(b) => \E q \in 1..3 : q = at[b] /\ Script(b) = Downgrade[q]
  BY <1>1, <1>7, NextRevision DEF InRevision
<1>16. ~Rising(b) => t \in View(b) /\ t \in schema[T] /\ at[b] <= start[b]
  BY <1>7, <1>8 DEF Naming, View, OnWay, Rising
<1> HIDE DEF x, k
<1>17. CASE OnlyStates(c)
  <2>1. t \in {"oauth_states", "oauth_codes"} /\ t \notin schema[T]
    BY <1>2, <1>5, <1>17, LittleHolds, StatesMissing
  <2>2. Rising(b)
    BY <1>16, <2>1
  <2>3. PICK q \in 1..3 : q = at[b] + 1 /\ Script(b) = Upgrade[q]
    BY <1>14, <2>2
  <2>4. CASE t = "oauth_codes"
    <3>1. q = 2 /\ k = 1
      BY <1>8, <1>12, <2>3, <2>4, MadeAt
    <3>2. "oauth_states" \in done[b]
      BY <1>9, <2>3, <3>1, Prefixes
    <3>3. "oauth_states" \in HeldBy(b)
      BY <1>1, <3>2, HoldsDone DEF Tables
    <3> QED
      BY <1>3, <1>17, <3>3, LittleHolds
  <2>5. CASE t = "oauth_states"
    <3>1. q = 2 /\ k = 0 /\ x = "oauth_states"
      BY <1>8, <1>12, <2>3, <2>5, MadeAt
    <3>2. at[b] = 1 /\ at[b] # start[b] /\ start[b] <= at[b]
      BY <1>8, <1>11, <2>2, <2>3, <3>1, Locking DEF OnWay, Rising
    <3> QED
      BY <1>8, <1>10, <1>17, <2>2, <3>2
  <2> QED
    BY <2>1, <2>4, <2>5
<1>18. CASE OnlyIndex(c)
  <2>1. t = "refresh_tokens"
    BY <1>5, <1>18, LittleHolds
  <2>2. ChainIndex \in schema[T] /\ start[c] = 1
    BY <1>2, <1>18, Distinct DEF OnlyIndex, IInv, Current
  <2>3. "users" \in schema[T]
    <3>1. version[T] # 0
      BY <1>13, <2>2, Versioning
    <3> QED
      BY <1>13, <3>1, UsersIn
  <2>4. ~Rising(b)
    <3> SUFFICES ASSUME Rising(b)
                 PROVE  FALSE
      OBVIOUS
    <3>1. PICK q \in 1..3 : q = at[b] + 1 /\ Script(b) = Upgrade[q]
      BY <1>14
    <3>2. q = 1 /\ k \in {3, 4}
      BY <1>7, <1>8, <2>1, <3>1, MadeAt
    <3>3. "users" \in done[b]
      BY <1>9, <3>1, <3>2, Prefixes
    <3> QED
      BY <2>3, <3>3, Distinct DEF IInv, Current, Tables
  <2>5. PICK q \in 1..3 : q = at[b] /\ Script(b) = Downgrade[q]
    BY <1>15, <2>4
  <2>6. q = 1 /\ k \in {0, 1}
    BY <1>7, <1>8, <2>1, <2>5, DroppedAt
  <2>7. k = 0
    <3> SUFFICES ASSUME k = 1
                 PROVE  FALSE
      BY <2>6
    <3>1. ChainIndex \in done[b]
      BY <1>9, <2>5, <2>6, Prefixes
    <3>2. "refresh_tokens" \in HeldBy(b)
      BY <1>1, <3>1, HoldsDone, Locking
    <3> QED
      BY <1>3, <1>5, <2>1, <3>2
  <2>8. x = ChainIndex
    BY <1>8, <2>5, <2>6, <2>7, Scripts
  <2>9. version[T] = start[b] /\ start[b] # 1
    BY <1>10, <1>11, <2>5, <2>6, <2>7, <2>8, Locking
  <2> QED
    BY <1>18, <2>2, <2>4, <2>9
<1>19. CASE OnlyCodes(c)
  <2>1. t = "oauth_codes" /\ x = "oauth_codes"
    BY <1>5, <1>12, <1>19, LittleHolds
  <2>2. "oauth_codes" \in schema[T] /\ start[c] = 2
    BY <1>2, <1>19, LittleHolds DEF OnlyCodes, IInv, Halfway
  <2>3. ~Rising(b)
    <3>1. Rising(b) => Naming(b) /\ "oauth_codes" \in View(b)
      BY <2>1, <2>2 DEF Naming, View, Tables, x
    <3> QED
      BY <1>7, <2>1, <3>1
  <2>4. PICK q \in 1..3 : q = at[b] /\ Script(b) = Downgrade[q]
    BY <1>15, <2>3
  <2>5. q = 2 /\ k = 0
    BY <1>8, <2>1, <2>4, DroppedAt
  <2>6. at[b] # start[b]
    <3>1. at[b] = start[b] => HeldBy(b) \subseteq {"oauth_codes"}
      BY <1>1, <1>7, <2>1, <2>5, FreshHolds DEF x, k
    <3> QED
      BY <3>1
  <2> QED
    BY <1>10, <1>19, <2>2, <2>3, <2>4, <2>5, <2>6
<1> QED
  BY <1>4, <1>17, <1>18, <1>19 DEF Little

(* And whom one waits for that does not hold users: it has the one lock    *)
(* and waits for the other.                                                *)
LEMMA LittleWaits ==
  ASSUME IInv, NEW b \in Migrators, NEW c \in Migrators,
         Little(b), c \in WaitsFor(b)
  PROVE  "users" \in HeldBy(c) /\ "users" \in schema[Target(b)]
<1>1. b # c /\ Target(c) = Target(b) /\ Needs(b) \cap HeldBy(c) # {}
  BY DEF WaitsFor
<1>2. HeldBy(b) \cap HeldBy(c) = {}
  BY <1>1 DEF IInv, Exclusive
<1>3. PICK t \in Needs(b) : t \in HeldBy(c)
  BY <1>1
<1>4. /\ Statement(b) \in {"oauth_codes", "refresh_tokens"} /\ ~AtStamp(b)
      /\ Statement(b) \in Tables /\ Subject(Statement(b)) = Statement(b)
  BY LittleHolds, Locking DEF Little, Tables
<1>5. CASE b \in half
  <2>1. t = "users" /\ t \in View(b)
    BY <1>3, <1>4, <1>5, Locking DEF Needs
  <2>2. "users" \notin done[b]
    BY DEF Little, OnlyStates, OnlyIndex, OnlyCodes, ChainIndex
  <2> QED
    BY <1>3, <2>1, <2>2 DEF View
<1>6. CASE b \notin half
  <2>1. t = Statement(b)
    BY <1>3, <1>4, <1>6 DEF Needs
  <2>2. CASE OnlyStates(b)
    <3>1. "oauth_codes" \in HeldBy(c)
      BY <1>3, <2>1, <2>2, LittleHolds
    <3>2. "oauth_codes" \notin schema[Target(c)]
      BY <1>1, <2>2, StatesMissing
    <3>3. "oauth_states" \in HeldBy(c)
      BY <3>1, <3>2, CodesHeld
    <3> QED
      BY <1>2, <2>2, <3>3, LittleHolds
  <2>3. CASE OnlyIndex(b) \/ OnlyCodes(b)
    BY <1>2, <1>3, <2>1, <2>3, LittleHolds
  <2> QED
    BY <2>2, <2>3 DEF Little
<1> QED
  BY <1>5, <1>6

(* In a circle every second run would hold users and wait for one that     *)
(* does not: neither an upgrade there nor a downgrade from the present     *)
(* version is such a run.                                                  *)
LEMMA IInvNoCircle == ASSUME IInv PROVE NoCircle
<1> SUFFICES ASSUME NEW S \in SUBSET Migrators, S # {},
                    \A m \in S : WaitsFor(m) \cap S # {},
                    \A m \in S : Rising(m) \/ start[m] = version[Target(m)]
             PROVE  FALSE
  BY DEF NoCircle
<1>1. PICK a \in S : TRUE
  OBVIOUS
<1>2. PICK b \in S : b \in WaitsFor(a)
  BY <1>1
<1>3. PICK c \in S : c \in WaitsFor(b)
  BY <1>2
<1>4. PICK d \in S : d \in WaitsFor(c)
  BY <1>3
<1>5. /\ HeldBy(b) # {} /\ Target(c) = Target(b) /\ Target(d) = Target(c)
  BY <1>2, <1>3, <1>4 DEF WaitsFor
<1>6. "users" \in schema[Target(b)] => version[Target(b)] # 0
  BY TargetType, Versioning DEF IInv, CatalogIsVersion
<1>7. CASE "users" \in HeldBy(b)
  <2>1. OnlyStates(c) /\ version[Target(b)] = 0
    BY <1>3, <1>5, <1>7, BigWaits DEF OnlyIndex, OnlyCodes
  <2> QED
    BY <1>4, <1>5, <1>6, <2>1, LittleWaits DEF Little
<1>8. CASE "users" \notin HeldBy(b)
  <2>1. "users" \in HeldBy(c) /\ "users" \in schema[Target(b)]
    BY <1>3, <1>5, <1>8, Kinds, LittleWaits
  <2> QED
    BY <1>4, <1>5, <1>6, <2>1, BigWaits DEF OnlyIndex, OnlyCodes
<1> QED
  BY <1>7, <1>8

(* However many upgrades and downgrades there are, they wait for each      *)
(* other in a circle only where one of them is a downgrade from a version  *)
(* that the database has left.                                             *)
THEOREM CirclesAreStale == Spec => []NoCircle
<1>1. IInv => NoCircle
  BY IInvNoCircle
<1> QED
  BY <1>1, Invariance, PTL

(* A run is safe if those it waits for, directly or not, do not wait for   *)
(* it.                                                                     *)
LEMMA Escape ==
  ASSUME NEW m \in Migrators, InDeadlock(m), NEW S \in SUBSET Migrators,
         \A n \in S \cup {m} : Awaits(n) \subseteq S
  PROVE  m \in S
<1>1. \A n \in S \cup {m} : n \in Migrators
  OBVIOUS
<1> QED
  BY <1>1 DEF InDeadlock

(* An upgrade that holds users in its first revision waits for nobody. *)
LEMMA FirstRevisionRuns ==
  ASSUME IInv, NEW m \in Migrators, Rising(m), at[m] = start[m],
         "users" \in HeldBy(m)
  PROVE  Awaits(m) = {}
<1>1. TypeOK /\ OnTheWay /\ Target(m) \in Databases
  BY TargetType DEF IInv
<1>2. WaitsFor(m) = {}
  <2> SUFFICES ASSUME NEW c \in WaitsFor(m)
               PROVE  FALSE
    OBVIOUS
  <2>1. c \in Migrators
    BY DEF WaitsFor
  <2> QED
    BY <2>1, BigWaits
<1>3. ~InUse(m)
  <2>1. Target(m) \notin inserting
    BY DEF IInv, InsertsProtected
  <2>2. ASSUME InRevision(m), Statement(m) = NullEmail
        PROVE  FALSE
    <3>1. PICK q \in 1..3 : Script(m) = Upgrade[q]
      BY <1>1, <2>2, NextRevision DEF InRevision
    <3>2. step[m] = 0
      BY <1>1, <2>2, <3>1, MadeAt DEF InRevision, Statement, TypeOK
    <3>3. m \notin half
      BY <2>2, Locking DEF IInv, Halfway
    <3> QED
      BY <1>1, <3>2, <3>3, FreshHolds
  <2> QED
    BY <2>1, <2>2 DEF InUse, Excludes
<1> QED
  BY <1>2, <1>3 DEF Awaits

LEMMA UpgradeDeadlock ==
  ASSUME IInv, NEW m \in Migrators, Deadlock(m), Rising(m)
  PROVE  at[m] # start[m]
<1> SUFFICES ASSUME at[m] = start[m]
             PROVE  FALSE
  OBVIOUS
<1> DEFINE T == Target(m)
<1>1. Awaits(m) # {} /\ InDeadlock(m)
  BY DEF Deadlock
<1>2. CASE HeldBy(m) = {}
  <2>1. \A n \in Migrators : Awaits(n) \subseteq Migrators \ {m}
    BY <1>2 DEF Awaits, WaitsFor, Holding
  <2>2. \A n \in (Migrators \ {m}) \cup {m} : Awaits(n) \subseteq Migrators \ {m}
    BY <2>1
  <2>3. (Migrators \ {m}) \in SUBSET Migrators
    OBVIOUS
  <2>4. m \in Migrators \ {m}
    BY <1>1, <2>2, <2>3, Escape
  <2> QED
    BY <2>4
<1>3. CASE "users" \in HeldBy(m)
  BY <1>1, <1>3, FirstRevisionRuns
<1>4. CASE HeldBy(m) # {} /\ "users" \notin HeldBy(m)
  <2> DEFINE S == {n \in Migrators : Target(n) = T /\ "users" \in HeldBy(n)}
  <2>1. OnlyStates(m)
    BY <1>4, Kinds DEF Little, OnlyIndex, OnlyCodes
  <2>2. "oauth_codes" \notin schema[T] /\ version[T] \in {0, 1}
    BY <2>1, StatesMissing
  <2>3. Holding(T) \subseteq S
    BY <2>2 DEF Holding, Wanted
  <2>4. WaitsFor(m) \subseteq S
    <3> SUFFICES ASSUME NEW c \in WaitsFor(m)
                 PROVE  c \in S
      OBVIOUS
    <3>1. c \in Migrators /\ Target(c) = T
      BY DEF WaitsFor
    <3> QED
      BY <2>1, <3>1, LittleWaits DEF Little
  <2>5. Awaits(m) \subseteq S
    BY <2>3, <2>4 DEF Awaits
  <2>6. version[T] # 0
    <3> SUFFICES ASSUME version[T] = 0
                 PROVE  FALSE
      OBVIOUS
    <3>1. schema[T] = {}
      BY TargetType, Versioning DEF IInv, CatalogIsVersion
    <3>2. Holding(T) = {}
      BY <3>1 DEF Holding, Wanted
    <3>3. WaitsFor(m) = {}
      <4> SUFFICES ASSUME NEW c \in WaitsFor(m)
                   PROVE  FALSE
        OBVIOUS
      <4>1. c \in Migrators
        BY DEF WaitsFor
      <4> QED
        BY <2>1, <3>1, <4>1, LittleWaits DEF Little
    <3> QED
      BY <1>1, <3>2, <3>3 DEF Awaits
  <2>7. ASSUME NEW n \in S
        PROVE  Awaits(n) \subseteq S
    <3>1. n \in Migrators /\ Target(n) = T /\ "users" \in HeldBy(n)
      OBVIOUS
    <3>2. WaitsFor(n) = {}
      <4> SUFFICES ASSUME NEW c \in WaitsFor(n)
                   PROVE  FALSE
        OBVIOUS
      <4>1. c \in Migrators /\ Target(c) = T
        BY <3>1 DEF WaitsFor
      <4>2. (OnlyIndex(c) \/ OnlyCodes(c)) /\ start[c] # version[T]
        BY <2>6, <3>1, <4>1, BigWaits
      <4>3. OnlyCodes(c)
        BY <2>2, <2>6, <4>2 DEF OnlyIndex
      <4>4. "oauth_codes" \in schema[T]
        BY <4>1, <4>3, LittleHolds DEF OnlyCodes, IInv, Halfway
      <4> QED
        BY <2>2, <4>4
    <3> QED
      BY <2>3, <3>1, <3>2 DEF Awaits
  <2>8. m \notin S
    BY <1>4
  <2>9. S \in SUBSET Migrators /\ \A n \in S \cup {m} : Awaits(n) \subseteq S
    BY <2>5, <2>7
  <2> HIDE DEF S
  <2> QED
    BY <1>1, <2>8, <2>9, Escape
<1> QED
  BY <1>2, <1>3, <1>4

(* An upgrade dies in a deadlock, with other runs or with the service,     *)
(* only after it has applied a revision in the same transaction: one by    *)
(* one they are safe.                                                      *)
THEOREM OneUpNeverDeadlocks == Spec => OneUpIsSafe
<1>1. IInv /\ [Next]_vars =>
        [\A m \in Migrators :
           pc'[m] = "deadlocked" /\ pc[m] # "deadlocked" /\ Rising(m) =>
             at[m] # start[m]]_vars
  BY Endings, UpgradeDeadlock
<1> QED
  BY <1>1, Invariance, PTL DEF Spec, OneUpIsSafe

-----------------------------------------------------------------------------
(* When a service can trust that it runs on a migrated database. *)

(* With upgrades only, on the database of the service. *)
OnlyUpward ==
  \A m \in Migrators :
    /\ Running(m) => /\ goal[m] = Latest
                     /\ start[m] = Latest => version["live"] = Latest
    /\ pc[m] \in {"done", "serving"} => version["live"] = Latest

LEMMA UpwardStep ==
  ASSUME IInv, OnlyUpward, [Next]_vars, Exporting = {}, Operators = {}
  PROVE  OnlyUpward'
<1>1. TypeOK /\ \A m \in Migrators : Target(m) = "live"
  BY DEF IInv, Target
<1>2. version["live"] = Latest => version'["live"] = Latest
  <2> SUFFICES ASSUME version["live"] = Latest, version'["live"] # version["live"]
               PROVE  FALSE
    OBVIOUS
  <2>1. PICK m \in Migrators : Commit(m) /\ start[m] = version["live"]
                                 /\ goal[m] = version'["live"]
    BY OnlyCommitsMove DEF Databases
  <2> QED
    BY <2>1 DEF OnlyUpward, Running, Commit
<1> SUFFICES ASSUME NEW m \in Migrators
             PROVE  /\ Running(m)' => /\ goal'[m] = Latest
                                      /\ start'[m] = Latest =>
                                           version'["live"] = Latest
                    /\ pc'[m] \in {"done", "serving"} =>
                         version'["live"] = Latest
  BY DEF OnlyUpward
<1>3. CASE pc'[m] = pc[m] /\ start'[m] = start[m] /\ goal'[m] = goal[m]
  BY <1>2, <1>3 DEF OnlyUpward, Running
<1>4. CASE Begin(m)
  <2>1. goal'[m] = Latest /\ start'[m] = version["live"] /\ pc'[m] = "running"
    BY <1>1, <1>4 DEF Begin, Goto, TypeOK
  <2> QED
    BY <1>2, <2>1 DEF Running
<1>5. CASE Fail(m) \/ Deadlock(m) \/ Crash(m)
  BY <1>1, <1>5 DEF Fail, Deadlock, Crash, Goto, TypeOK, Running
<1>6. CASE Commit(m)
  <2>1. pc'[m] = "done" /\ pc[m] = "running" /\ at[m] = goal[m]
    BY <1>1, <1>6 DEF Commit, Goto, TypeOK
  <2>2. goal[m] = Latest /\ (start[m] = Latest => version["live"] = Latest)
    BY <2>1 DEF OnlyUpward, Running
  <2>3. version'["live"] = ViewVersion(m)
    BY <1>1, <1>6 DEF Commit, TypeOK, Databases
  <2>4. version'["live"] = Latest
    BY <1>1, <1>6, <2>1, <2>2, <2>3, Arrival
  <2> QED
    BY <2>1, <2>4 DEF Running
<1>7. CASE Serve(m)
  <2>1. pc[m] = "done" /\ pc'[m] = "serving"
    BY <1>1, <1>7 DEF Serve, Goto, TypeOK
  <2> QED
    BY <1>2, <2>1 DEF OnlyUpward, Running
<1>8. ASSUME NEW n \in Migrators, n # m,
             Begin(n) \/ Open(n) \/ Execute(n) \/ Stamp(n) \/ Fail(n) \/ Deadlock(n)
               \/ Commit(n) \/ Crash(n) \/ Serve(n)
      PROVE  pc'[m] = pc[m] /\ start'[m] = start[m] /\ goal'[m] = goal[m]
  BY <1>1, <1>8, OtherRuns
<1>9. CASE Open(m) \/ Execute(m) \/ Stamp(m)
  BY <1>3, <1>9 DEF Open, Execute, Stamp
<1>10. CASE \E d \in Served : (\E t \in Lookups : Read(d, t)) \/ Insert(d) \/ End(d)
  BY <1>3, <1>10 DEF Read, Insert, End, run
<1>11. CASE Terminating \/ UNCHANGED vars
  BY <1>3, <1>11 DEF Terminating, vars, run
<1> QED
  BY <1>3, <1>4, <1>5, <1>6, <1>7, <1>8, <1>9, <1>10, <1>11 DEF Next

(* What .env.example promises is kept where TEST_DATABASE_URL is not in    *)
(* the environment of a run and nobody downgrades: a service that dev.sh   *)
(* has started runs on a migrated database.  (Where it is, the promise can *)
(* be broken, as a run of TLC shows.)                                      *)
THEOREM ServesLatestUnexported ==
  ASSUME Exporting = {}, Operators = {}
  PROVE  Spec => []ServesLatest
<1>1. Init => OnlyUpward
  BY DEF Init, OnlyUpward, Running
<1>2. IInv /\ OnlyUpward /\ [Next]_vars => OnlyUpward'
  BY UpwardStep
<1>3. OnlyUpward => ServesLatest
  BY DEF OnlyUpward, ServesLatest
<1> QED
  BY <1>1, <1>2, <1>3, Invariance, PTL DEF Spec

=============================================================================
