------------------------------- MODULE Schema -------------------------------
(***************************************************************************)
(* The migrations of auth-service (alembic/) and what may happen when they *)
(* run: several `alembic upgrade` and `alembic downgrade` at once, crashes *)
(* in the middle, and a service that goes on registering users meanwhile.  *)
(*                                                                         *)
(* One run of alembic is one PostgreSQL transaction (env.py opens it       *)
(* around all revisions), and DDL is part of it.  A statement sees what is *)
(* committed when it runs, and on top of that what its own transaction has *)
(* done.  It locks its own table first and then, with a foreign key, the   *)
(* referenced one; each of these is a step, and all locks are kept until   *)
(* the transaction ends.  It does not wait for a table that it cannot see, *)
(* but for a name it is about to give.                                     *)
(*                                                                         *)
(* The service reads and inserts in one transaction (signup, callback).    *)
(* What it has read only waits for, and keeps off, whoever drops or alters *)
(* it; an insert also keeps off those who make a foreign key to the table. *)
(*                                                                         *)
(* A run only goes up or only goes down, and every statement makes or      *)
(* drops one object: a table, an index, or the permission for users.email  *)
(* to be NULL.                                                             *)
(***************************************************************************)
EXTENDS Integers, Sequences

CONSTANTS
  Migrators,  \* the runs of alembic
  Exporting,  \* those with TEST_DATABASE_URL in their environment
  Operators,  \* those that may be told to downgrade
  Unreliable  \* those whose process or connection may die

ASSUME SchemaAssumption ==
  Exporting \cup Operators \cup Unreliable \subseteq Migrators

VARIABLES
  schema,   \* committed: the objects of each database
  version,  \* committed: its alembic_version
  idOnly,   \* databases with a committed user without e-mail
  reads,    \* the tables the service's open transaction has read there
  inserting,\* databases where it has also inserted a user
  pc,       \* where each run stands
  start,    \* the version it has read
  goal,     \* the version it was told to reach
  at,       \* the version it has reached
  step,     \* how many statements of the next revision it has run
  half,     \* those that have locked the table of the next statement, and
            \* not yet the one it references
  done      \* the objects its transaction has made, or dropped

committed == <<schema, version>>
service == <<idOnly, reads, inserting>>
run == <<start, goal, at, step, half, done>>
vars == <<committed, service, pc, run>>

-----------------------------------------------------------------------------
(* The revisions *)

Databases == {"live", "test"}

Latest == 3

Versions == 0..Latest

Tables == {"users", "auth_identities", "password_resets", "refresh_tokens",
           "oauth_states", "oauth_codes"}

NullEmail == "users.email NULL"

ChainIndex == "ix_refresh_tokens_chain_id"

Objects == Tables \cup {ChainIndex, NullEmail}

VersionTable == "alembic_version"

(* Those a callback, or a signup, reads before it inserts a user. *)
Lookups == {"auth_identities", "users"}

(* The service is on DATABASE_URL. *)
Served == {"live"}

(* Faulty variants of some of the definitions below, with one plausible    *)
(* bug each; no specification uses them, each breaks a property.           *)

(* Downgrade that forgets a table. *)
StatesStay ==
  << <<ChainIndex, "refresh_tokens", "password_resets", "auth_identities",
       "users">>,
     <<"oauth_codes">>,
     <<NullEmail>> >>

(* Upgrade with the last revision folded into the one before. *)
Squashed ==
  << <<"users", "auth_identities", "password_resets", "refresh_tokens",
       ChainIndex>>,
     <<"oauth_states", "oauth_codes", NullEmail>>,
     << >> >>

(* References without the foreign key of oauth_codes. *)
Unconstrained(t) ==
  IF t \in {"auth_identities", "password_resets", "refresh_tokens"}
    THEN {"users"} ELSE {}

(* Outdated without the check of the version table. *)
Unversioned(m) == FALSE

(* InUse of an ALTER that takes no lock on the table. *)
NeverInUse(m) == FALSE

(* Close of a connection that stays open. *)
LeftOpen(m) == UNCHANGED run

(* What upgrade() makes and what downgrade() drops, in each revision. *)
Upgrade ==
  << <<"users", "auth_identities", "password_resets", "refresh_tokens",
       ChainIndex>>,
     <<"oauth_states", "oauth_codes">>,
     <<NullEmail>> >>

Downgrade ==
  << <<ChainIndex, "refresh_tokens", "password_resets", "auth_identities",
       "users">>,
     <<"oauth_codes", "oauth_states">>,
     <<NullEmail>> >>

(* The foreign keys of an object. *)
References(x) ==
  IF x \in Tables \ {"users", "oauth_states"} THEN {"users"} ELSE {}

(* What there is at version v. *)
MadeIn(r) == {Upgrade[r][k] : k \in DOMAIN Upgrade[r]}

SchemaOf(v) == UNION {MadeIn(r) : r \in 1..v}

-----------------------------------------------------------------------------
(* The transaction of a run *)

(* _database_url *)
Target(m) == IF m \in Exporting THEN "test" ELSE "live"

Rising(m) == start[m] < goal[m]

Script(m) == IF Rising(m) THEN Upgrade[at[m] + 1] ELSE Downgrade[at[m]]

Toward(m) == IF Rising(m) THEN at[m] + 1 ELSE at[m] - 1

(* What it sees. *)
View(m) ==
  IF Rising(m) THEN schema[Target(m)] \cup done[m]
               ELSE schema[Target(m)] \ done[m]

ViewVersion(m) == IF at[m] = start[m] THEN version[Target(m)] ELSE at[m]

(* The next statement of the revision. *)
Statement(m) == Script(m)[step[m] + 1]

InRevision(m) ==
  pc[m] = "running" /\ at[m] # goal[m] /\ step[m] < Len(Script(m))

AtStamp(m) ==
  pc[m] = "running" /\ at[m] # goal[m] /\ step[m] = Len(Script(m))

(* The table a statement is about, and all those that it locks. *)
Subject(x) ==
  IF x = NullEmail THEN "users"
  ELSE IF x = ChainIndex THEN "refresh_tokens" ELSE x

Locks(x) == {Subject(x)} \cup References(x)

HeldBy(m) ==
  (UNION {Locks(x) : x \in done[m]})
    \cup (IF m \in half THEN {Subject(Statement(m))} ELSE {})
    \cup (IF at[m] = start[m] THEN {} ELSE {VersionTable})

(* CREATE TABLE *)
Naming(m) == Rising(m) /\ Statement(m) \in Tables

(* What it now needs, and the runs that have it. *)
Needs(m) ==
  {t \in Tables \cup {VersionTable} :
     \/ AtStamp(m) /\ t = VersionTable
     \/ InRevision(m) /\ m \notin half
          /\ t = Subject(Statement(m)) /\ (Naming(m) <=> t \notin View(m))
     \/ InRevision(m) /\ m \in half
          /\ t \in References(Statement(m)) \cap View(m)}

WaitsFor(m) ==
  LET needs == Needs(m)
  IN  {n \in Migrators \ {m} : Target(n) = Target(m) /\ needs \cap HeldBy(n) # {}}

(* The statements that let nobody read the table; and what they bar.       *)
Excludes(m, x) == ~Rising(m) \/ x = NullEmail

Barred(m, t) == t \in HeldBy(m) /\ (~Rising(m) \/ NullEmail \in done[m])

(* The service is in the way. *)
InUse(m) ==
  \E t \in Needs(m) :
    \/ t = "users" /\ Target(m) \in inserting
    \/ InRevision(m) /\ Excludes(m, Statement(m)) /\ t \in reads[Target(m)]

(* The tables it may go on to, and those it has to wait for there. *)
Wanted(d) ==
  schema[d] \cap ({"oauth_codes"} \cup (IF d \in inserting THEN {} ELSE {"users"}))

Holding(d) ==
  {n \in Migrators : Target(n) = d /\ Wanted(d) \cap HeldBy(n) # {}}

Awaits(m) ==
  WaitsFor(m) \cup (IF InUse(m) THEN Holding(Target(m)) ELSE {})

(* m waits, through others, for itself. *)
InDeadlock(m) ==
  LET awaits == [n \in Migrators |-> Awaits(n)]
  IN  \A S \in SUBSET Migrators :
        (\A n \in S \cup {m} : awaits[n] \subseteq S) => m \in S

Granted(m) == InRevision(m) /\ WaitsFor(m) = {} /\ ~InUse(m)

(* Its locks are complete with the next one. *)
LastLock(m) == m \in half \/ References(Statement(m)) = {}

(* Stamping a revision finds another version than the one it replaces.     *)
(* (From base there is none: alembic inserts a row and does not look.)     *)
Outdated(m) == at[m] # 0 /\ ViewVersion(m) # at[m]

(* What PostgreSQL does not let m make, or drop. *)
Refused(m, x) ==
  \/ x # NullEmail /\ (Rising(m) <=> x \in View(m))
  \/ x \notin Tables /\ Subject(x) \notin View(m)
  \/ Rising(m) /\ ~(References(x) \subseteq View(m))
  \/ ~Rising(m) /\ \E t \in View(m) : x \in References(t)
  \/ ~Rising(m) /\ x = NullEmail /\ Target(m) \in idOnly

Goto(m, label) == pc' = [pc EXCEPT ![m] = label]

(* The transaction ends; its locks are free. *)
Close(m) ==
  /\ start' = [start EXCEPT ![m] = 0]
  /\ goal' = [goal EXCEPT ![m] = 0]
  /\ at' = [at EXCEPT ![m] = 0]
  /\ step' = [step EXCEPT ![m] = 0]
  /\ half' = half \ {m}
  /\ done' = [done EXCEPT ![m] = {}]

Init ==
  /\ version \in [Databases -> Versions]
  /\ schema = [d \in Databases |-> SchemaOf(version[d])]
  /\ idOnly = {}
  /\ reads = [d \in Databases |-> {}]
  /\ inserting = {}
  /\ pc = [m \in Migrators |-> "idle"]
  /\ start = [m \in Migrators |-> 0]
  /\ goal = [m \in Migrators |-> 0]
  /\ at = [m \in Migrators |-> 0]
  /\ step = [m \in Migrators |-> 0]
  /\ half = {}
  /\ done = [m \in Migrators |-> {}]

-----------------------------------------------------------------------------
(* One run of alembic *)

(* It reads the version table and decides what to do. *)
Begin(m) ==
  /\ pc[m] = "idle"
  /\ start' = [start EXCEPT ![m] = version[Target(m)]]
  /\ at' = [at EXCEPT ![m] = version[Target(m)]]
  /\ \E v \in IF m \in Operators THEN 0..version[Target(m)] ELSE {Latest} :
       goal' = [goal EXCEPT ![m] = v]
  /\ Goto(m, "running")
  /\ UNCHANGED <<committed, service, step, half, done>>

(* A statement with a foreign key has got its own table. *)
Open(m) ==
  /\ Granted(m) /\ ~Refused(m, Statement(m)) /\ ~LastLock(m)
  /\ half' = half \cup {m}
  /\ UNCHANGED <<committed, service, pc, start, goal, at, step, done>>

Execute(m) ==
  /\ Granted(m) /\ ~Refused(m, Statement(m)) /\ LastLock(m)
  /\ half' = half \ {m}
  /\ done' = [done EXCEPT ![m] = @ \cup {Statement(m)}]
  /\ step' = [step EXCEPT ![m] = @ + 1]
  /\ UNCHANGED <<committed, service, pc, start, goal, at>>

Stamp(m) ==
  /\ AtStamp(m) /\ WaitsFor(m) = {} /\ ~Outdated(m)
  /\ at' = [at EXCEPT ![m] = Toward(m)]
  /\ step' = [step EXCEPT ![m] = 0]
  /\ UNCHANGED <<committed, service, pc, start, goal, half, done>>

Fail(m) ==
  /\ \/ Granted(m) /\ Refused(m, Statement(m))
     \/ AtStamp(m) /\ WaitsFor(m) = {} /\ Outdated(m)
  /\ Close(m)
  /\ Goto(m, "failed")
  /\ UNCHANGED <<committed, service>>

(* It waits for itself, through other runs or the service; it is the       *)
(* victim.                                                                 *)
Deadlock(m) ==
  /\ Awaits(m) # {} /\ InDeadlock(m)
  /\ Close(m)
  /\ Goto(m, "deadlocked")
  /\ UNCHANGED <<committed, service>>

Commit(m) ==
  /\ pc[m] = "running" /\ at[m] = goal[m]
  /\ schema' = [schema EXCEPT ![Target(m)] = View(m)]
  /\ version' = [version EXCEPT ![Target(m)] = ViewVersion(m)]
  /\ Close(m)
  /\ Goto(m, "done")
  /\ UNCHANGED service

Crash(m) ==
  /\ m \in Unreliable /\ pc[m] = "running"
  /\ Close(m)
  /\ Goto(m, "crashed")
  /\ UNCHANGED <<committed, service>>

(* dev.sh: `alembic upgrade head && exec uvicorn` *)
Serve(m) ==
  /\ pc[m] = "done" /\ m \notin Operators
  /\ Goto(m, "serving")
  /\ UNCHANGED <<committed, service, run>>

-----------------------------------------------------------------------------
(* The service: a callback finds an identity and inserts a user without    *)
(* e-mail, or looks for a user with its e-mail, as a signup does, and      *)
(* inserts that one (bound: one transaction at a time).                    *)

Read(d, t) ==
  /\ d \notin inserting
  /\ t \notin reads[d] /\ "users" \notin reads[d]
  /\ t \in schema[d]
  /\ \A m \in Migrators : Target(m) = d => ~Barred(m, t)
  /\ reads' = [reads EXCEPT ![d] = @ \cup {t}]
  /\ UNCHANGED <<committed, idOnly, inserting, pc, run>>

Insert(d) ==
  /\ d \notin inserting /\ reads[d] # {}
  /\ "users" \in schema[d]
  /\ "users" \notin reads[d] => NullEmail \in schema[d]
  /\ \A m \in Migrators : Target(m) = d => "users" \notin HeldBy(m)
  /\ inserting' = inserting \cup {d}
  /\ UNCHANGED <<committed, idOnly, reads, pc, run>>

(* It commits, or is rolled back. *)
End(d) ==
  /\ reads[d] # {}
  /\ reads' = [reads EXCEPT ![d] = {}]
  /\ inserting' = inserting \ {d}
  /\ \/ UNCHANGED idOnly
     \/ /\ d \in inserting /\ "users" \notin reads[d]
        /\ idOnly' = idOnly \cup {d}
  /\ UNCHANGED <<committed, pc, run>>

Terminating ==
  /\ \A m \in Migrators : pc[m] \notin {"idle", "running"}
  /\ UNCHANGED vars

Next ==
  \/ \E m \in Migrators :
       \/ Begin(m)
       \/ Open(m)
       \/ Execute(m)
       \/ Stamp(m)
       \/ Fail(m)
       \/ Commit(m)
       \/ Deadlock(m)
       \/ Crash(m)
       \/ Serve(m)
  \/ \E d \in Served :
       \/ \E t \in Lookups : Read(d, t)
       \/ Insert(d)
       \/ End(d)
  \/ Terminating

Spec == Init /\ [][Next]_vars

-----------------------------------------------------------------------------
(* Properties *)

(* The shape of the state; only a running migrator has a transaction. *)
TypeOK ==
  /\ schema \in [Databases -> SUBSET Objects]
  /\ version \in [Databases -> Versions]
  /\ idOnly \subseteq Databases
  /\ reads \in [Databases -> SUBSET Lookups]
  /\ inserting \subseteq Databases
  /\ pc \in [Migrators -> {"idle", "running", "done", "failed", "crashed",
                           "deadlocked", "serving"}]
  /\ start \in [Migrators -> Versions]
  /\ goal \in [Migrators -> Versions]
  /\ at \in [Migrators -> Versions]
  /\ step \in [Migrators -> Nat]
  /\ half \subseteq Migrators
  /\ done \in [Migrators -> SUBSET Objects]
  /\ \A m \in Migrators :
       pc[m] # "running" =>
         /\ done[m] = {} /\ step[m] = 0 /\ m \notin half
         /\ start[m] = at[m] /\ at[m] = goal[m]

(* A database is never between two revisions, nor other than its version   *)
(* says, whatever upgrades and downgrades overlap or die half way: the     *)
(* version table can be trusted (the begin_transaction of env.py).         *)
CatalogIsVersion == \A d \in Databases : schema[d] = SchemaOf(version[d])

(* A user without e-mail lives in a database that allows it: a downgrade   *)
(* cannot slip past an insert that has not committed yet (the ALTER of     *)
(* revision b23f467001cb).                                                 *)
IdOnlyFits == \A d \in idOnly : {"users", NullEmail} \subseteq schema[d]

(* What upgrade() and downgrade() do always fits the revision they start   *)
(* from, through every chain of them: a run fails only if the version has  *)
(* moved on from the one it has read, or at a user without e-mail.         *)
FailuresHaveCause ==
  [][\A m \in Migrators :
       pc'[m] = "failed" /\ pc[m] # "failed" =>
         \/ version[Target(m)] # start[m]
         \/ /\ ~Rising(m) /\ Statement(m) = NullEmail
            /\ Target(m) \in idOnly]_vars

(* A run that read a stale version changes nothing: a database moves only  *)
(* from the version a run has started from to the one it was told to reach *)
(* (the transaction around run_migrations in env.py, and the version it    *)
(* finds when it stamps).                                                  *)
MovesAsTold ==
  [][\A d \in Databases :
       version'[d] # version[d] =>
         \E m \in Migrators : /\ Target(m) = d
                              /\ start[m] = version[d]
                              /\ goal[m] = version'[d]]_vars

(* Deployments never wait for each other in a circle, nor for a downgrade  *)
(* from the version they have read: there is a circle only where the       *)
(* version has moved under a downgrade that still runs.  (Every revision   *)
(* locks users.  Three lock a table before it: the upgrade of 1abef9c07705 *)
(* oauth_states, its downgrade oauth_codes, and the downgrade of           *)
(* 45f972df44e3 refresh_tokens; they must not get in each other's way.)    *)
NoCircle ==
  \A S \in SUBSET Migrators :
    S # {} /\ (\A m \in S : WaitsFor(m) \cap S # {}) =>
      \E m \in S : ~Rising(m) /\ start[m] # version[Target(m)]

(* An upgrade by one revision never dies in a deadlock, neither with other *)
(* runs nor with the service: only one that goes on, in the same           *)
(* transaction (env.py), to a second.                                      *)
OneUpIsSafe ==
  [][\A m \in Migrators :
       pc'[m] = "deadlocked" /\ pc[m] # "deadlocked" /\ Rising(m) =>
         at[m] # start[m]]_vars

(* A service that dev.sh started runs on a migrated database: "The app     *)
(* always uses the in-network DATABASE_URL" (.env.example:21), and it is   *)
(* started only after `alembic upgrade head`.                              *)
ServesLatest ==
  \A m \in Migrators : pc[m] = "serving" => version["live"] = Latest

=============================================================================
