-------------------------- MODULE UserAccessProofs --------------------------
(* Theorems about UserAccess, for any accounts, any configuration and any  *)
(* number of tabs.                                                         *)
EXTENDS UserAccess, TLAPS

(* The rows somebody has open: as they are, or older by their version.     *)
FormsFresh ==
    \A t \in Tabs : forms[t] # NoForm =>
       LET row == users[forms[t].subject]
       IN  /\ forms[t].read.version <= row.version
           /\ forms[t].read.version = row.version => forms[t].read = row
-----------------------------------------------------------------------------
(* What a transaction that changes a row does, create and update alike.    *)
Wrote(t, action, after) ==
    LET f == forms[t]
        s == forms[t].subject
    IN  /\ f # NoForm /\ f.actor \in Subjects /\ s \in Subjects /\ f.read \in User
        /\ IsAdmin(users[f.actor])
        /\ action \in {"CREATE", "UPDATE"}
        /\ after \in User /\ after.version = users[s].version + 1
        /\ action = "UPDATE" => f.read.version = users[s].version
        /\ IsAdmin(users[s]) /\ ~IsAdmin(after) =>
              \E other \in Subjects \ {s} : IsAdmin(users[other])
        /\ users' = [users EXCEPT ![s] = after]
        /\ audit' = Append(audit, [actor |-> f.actor, action |-> action,
                                   subject |-> s, before |-> users[s], after |-> after])
        /\ seen' = Append(seen, f.read)
        /\ forms' = [forms EXCEPT ![t] = NoForm]

LEMMA NoUserType == NoUser \in User /\ ~IsAdmin(NoUser) /\ NoUser.version = 0
  BY DEF NoUser, User, IsAdmin

LEMMA NoFormStep == NoForm.step = "IDLE"
  BY DEF NoForm, Form

LEMMA CreateWrites ==
  ASSUME TypeOK, NEW t \in Tabs, NEW admin \in BOOLEAN, NEW active \in BOOLEAN,
         Create(t, admin, active)
  PROVE  \E after \in User : Wrote(t, "CREATE", after)
<1> DEFINE s == forms[t].subject
           after == [admin |-> admin, active |-> active, version |-> users[s].version + 1]
<1>1. forms[t] # NoForm /\ forms[t] \in Forms
  BY NoFormStep DEF Create, MayWrite, TypeOK
<1>2. forms[t].actor \in Subjects /\ s \in Subjects /\ forms[t].read \in User
  BY <1>1 DEF Forms
<1>3. users[s] = NoUser /\ users[s] \in User /\ ~IsAdmin(users[s])
  BY <1>2, NoUserType DEF Create, TypeOK
<1>4. after \in User /\ after.version = users[s].version + 1
  BY <1>3 DEF User
<1>5. IsAdmin(users[forms[t].actor])
  BY DEF Create, MayWrite
<1>6. Wrote(t, "CREATE", after)
  BY <1>1, <1>2, <1>3, <1>4, <1>5 DEF Create, Write, Wrote
<1> QED BY <1>4, <1>6

LEMMA UpdateWrites ==
  ASSUME TypeOK, NEW t \in Tabs, NEW admin \in BOOLEAN, NEW active \in BOOLEAN,
         Update(t, admin, active)
  PROVE  \E after \in User : Wrote(t, "UPDATE", after)
<1> DEFINE s == forms[t].subject
           after == [admin |-> admin, active |-> active, version |-> users[s].version + 1]
<1>1. forms[t] # NoForm /\ forms[t] \in Forms
  BY NoFormStep DEF Update, MayWrite, TypeOK
<1>2. forms[t].actor \in Subjects /\ s \in Subjects /\ forms[t].read \in User
  BY <1>1 DEF Forms
<1>3. users[s] \in User
  BY <1>2 DEF TypeOK
<1>4. after \in User /\ after.version = users[s].version + 1
  BY <1>3 DEF User
<1>5. IsAdmin(users[forms[t].actor]) /\ forms[t].read.version = users[s].version
  BY DEF Update, MayWrite
<1>6. IsAdmin(users[s]) /\ ~IsAdmin(after) =>
         \E other \in Subjects \ {s} : IsAdmin(users[other])
  BY DEF Update, KeepsAnAdmin, IsAdmin
<1>7. Wrote(t, "UPDATE", after)
  BY <1>1, <1>2, <1>3, <1>4, <1>5, <1>6 DEF Update, Write, Wrote
<1> QED BY <1>4, <1>7

(* A step imports, writes a row, or changes a form alone.                  *)
FormStep == UNCHANGED <<users, audit, seen>> /\ \E t \in Tabs, f \in Forms :
                /\ forms' = [forms EXCEPT ![t] = f]
                /\ f # NoForm => /\ f.subject \in Subjects
                                 /\ \/ f.read = users[f.subject]
                                    \/ /\ forms[t] # NoForm
                                       /\ f.read = forms[t].read
                                       /\ f.subject = forms[t].subject

LEMMA StepCases ==
  ASSUME TypeOK, Next
  PROVE  \/ Boot
         \/ FormStep
         \/ \E t \in Tabs, action \in {"CREATE", "UPDATE"}, after \in User :
               Wrote(t, action, after)
<1>1. CASE Boot BY <1>1
<1>2. ASSUME NEW t \in Tabs, NEW actor \in Subjects, NEW subject \in Subjects,
             Read(t, actor, subject)
      PROVE  FormStep
  <2> DEFINE f == Form("READ", actor, subject, users[subject])
  <2>1. f \in Forms /\ f.subject = subject /\ f.read = users[subject]
    BY DEF Form, Forms, TypeOK
  <2>2. forms' = [forms EXCEPT ![t] = f] /\ UNCHANGED <<users, audit, seen>>
    BY <1>2 DEF Read
  <2> HIDE DEF f
  <2> QED BY <2>1, <2>2 DEF FormStep
<1>3. ASSUME NEW t \in Tabs, Admit(t)
      PROVE  FormStep
  <2> DEFINE f == Form("ADMITTED", forms[t].actor, forms[t].subject, forms[t].read)
  <2>1. forms[t] # NoForm /\ forms[t] \in Forms
    BY <1>3, NoFormStep DEF Admit, TypeOK
  <2>2. f \in Forms /\ f.subject = forms[t].subject /\ f.read = forms[t].read
        /\ f.subject \in Subjects
    BY <2>1 DEF Form, Forms
  <2>3. forms' = [forms EXCEPT ![t] = f] /\ UNCHANGED <<users, audit, seen>>
    BY <1>3 DEF Admit
  <2> HIDE DEF f
  <2> QED BY <2>1, <2>2, <2>3 DEF FormStep
<1>4. ASSUME NEW t \in Tabs, Leave(t)
      PROVE  FormStep
  <2>1. forms' = [forms EXCEPT ![t] = NoForm] /\ UNCHANGED <<users, audit, seen>>
    BY <1>4 DEF Leave
  <2>2. NoForm \in Forms BY DEF Forms
  <2> QED BY <2>1, <2>2 DEF FormStep
<1>5. ASSUME NEW t \in Tabs, NEW admin \in BOOLEAN, NEW active \in BOOLEAN,
             Create(t, admin, active) \/ Update(t, admin, active)
      PROVE  \E action \in {"CREATE", "UPDATE"}, after \in User : Wrote(t, action, after)
  BY <1>5, CreateWrites, UpdateWrites
<1> QED BY <1>1, <1>2, <1>3, <1>4, <1>5 DEF Next
-----------------------------------------------------------------------------
LEMMA InitType == Init => TypeOK
<1> SUFFICES ASSUME Init PROVE TypeOK OBVIOUS
<1>1. NoForm \in Forms BY DEF Forms
<1>2. users \in [Subjects -> User] BY NoUserType DEF Init
<1>3. audit \in Seq(Entry) /\ seen \in Seq(User) /\ Len(seen) = Len(audit) BY DEF Init
<1>4. forms \in [Tabs -> Forms] BY <1>1 DEF Init
<1> QED BY <1>2, <1>3, <1>4 DEF TypeOK

LEMMA ImportedType ==
  ASSUME NEW n \in DOMAIN Configured
  PROVE  /\ Configured[n].subject \in Subjects
         /\ Imported(Configured[n]) \in User
         /\ Imported(Configured[n]).version = 1
         /\ Configured[n].admin => IsAdmin(Imported(Configured[n]))
<1> DEFINE Actor == [subject : Subjects, admin : BOOLEAN]
<1>1. Configured[n] \in Actor
  <2>1. Configured \in Seq(Actor) BY AccessAssumption
  <2> HIDE DEF Actor
  <2> QED BY <2>1
<1> QED BY <1>1 DEF Imported, User, IsAdmin

(* What an import leaves: the rows and the entries it writes.              *)
LEMMA BootWrites ==
  ASSUME TypeOK, Boot
  PROVE  /\ \A s \in Subjects : users[s] = NoUser
         /\ DOMAIN audit' = DOMAIN Configured
         /\ Len(audit') = Len(Configured)
         /\ \A n \in DOMAIN Configured :
               /\ audit'[n].subject = Configured[n].subject
               /\ audit'[n].action = "BOOTSTRAP"
               /\ audit'[n].before = NoUser
               /\ audit'[n].after = Imported(Configured[n])
               /\ users'[Configured[n].subject] = Imported(Configured[n])
         /\ \A s \in Subjects :
               (\A n \in DOMAIN Configured : Configured[n].subject # s) => users'[s] = NoUser
<1>1. \A s \in Subjects : users[s] = NoUser
  BY DEF Boot
<1>2. DOMAIN Configured = 1..Len(Configured) /\ Len(Configured) \in Nat
  BY AccessAssumption
<1>3. DOMAIN audit' = DOMAIN Configured /\ Len(audit') = Len(Configured)
  BY <1>2 DEF Boot
<1>4. ASSUME NEW n \in DOMAIN Configured
      PROVE  /\ audit'[n].subject = Configured[n].subject
             /\ audit'[n].action = "BOOTSTRAP"
             /\ audit'[n].before = NoUser
             /\ audit'[n].after = Imported(Configured[n])
             /\ users'[Configured[n].subject] = Imported(Configured[n])
  <2>1. audit'[n] = [actor |-> Bootstrap, action |-> "BOOTSTRAP",
                     subject |-> Configured[n].subject, before |-> NoUser,
                     after |-> Imported(Configured[n])]
    BY DEF Boot
  <2>2. Configured[n].subject \in Subjects BY ImportedType
  <2> DEFINE m == CHOOSE k \in DOMAIN Configured : Configured[k].subject = Configured[n].subject
  <2>3. m \in DOMAIN Configured /\ Configured[m].subject = Configured[n].subject
    OBVIOUS
  <2>4. m = n
    BY <2>3, AccessAssumption
  <2>5. users'[Configured[n].subject] = Imported(Configured[m])
    BY <2>2 DEF Boot
  <2> HIDE DEF m
  <2>6. users'[Configured[n].subject] = Imported(Configured[n])
    BY <2>4, <2>5
  <2>7. /\ audit'[n].subject = Configured[n].subject
        /\ audit'[n].action = "BOOTSTRAP"
        /\ audit'[n].before = NoUser
        /\ audit'[n].after = Imported(Configured[n])
    BY <2>1
  <2> QED BY <2>6, <2>7
<1>5. ASSUME NEW s \in Subjects, \A n \in DOMAIN Configured : Configured[n].subject # s
      PROVE  users'[s] = NoUser
  BY <1>5 DEF Boot
<1> QED BY <1>1, <1>3, <1>4, <1>5

LEMMA BootType ==
  ASSUME TypeOK, Boot
  PROVE  TypeOK'
<1>1. DOMAIN Configured = 1..Len(Configured) /\ Len(Configured) \in Nat
  BY AccessAssumption
<1>2. users' \in [Subjects -> User]
  <2>1. \A s \in Subjects : users'[s] \in User
    <3> TAKE s \in Subjects
    <3>1. CASE \E n \in DOMAIN Configured : Configured[n].subject = s
      <4>1. PICK n \in DOMAIN Configured : Configured[n].subject = s BY <3>1
      <4>2. users'[s] = Imported(Configured[n]) BY <4>1, BootWrites
      <4> QED BY <4>2, ImportedType
    <3>2. CASE \A n \in DOMAIN Configured : Configured[n].subject # s
      BY <3>2, BootWrites, NoUserType
    <3> QED BY <3>1, <3>2
  <2>2. DOMAIN users' = Subjects /\ users' = [s \in Subjects |-> users'[s]]
    BY DEF Boot
  <2> QED BY <2>1, <2>2
<1>3. audit' \in Seq(Entry)
  <2>1. \A n \in DOMAIN Configured :
           [actor |-> Bootstrap, action |-> "BOOTSTRAP",
            subject |-> Configured[n].subject, before |-> NoUser,
            after |-> Imported(Configured[n])] \in Entry
    BY ImportedType, NoUserType DEF Entry, Actions
  <2> QED BY <2>1, <1>1 DEF Boot
<1>4. seen' \in Seq(User) /\ Len(seen') = Len(Configured)
  BY <1>1, NoUserType DEF Boot
<1>5. forms' \in [Tabs -> Forms] BY DEF Boot, TypeOK
<1> QED BY <1>2, <1>3, <1>4, <1>5, BootWrites DEF TypeOK

LEMMA WroteType ==
  ASSUME TypeOK, NEW t \in Tabs, NEW action \in {"CREATE", "UPDATE"}, NEW after \in User,
         Wrote(t, action, after)
  PROVE  TypeOK'
<1> DEFINE s == forms[t].subject
           e == [actor |-> forms[t].actor, action |-> action, subject |-> s,
                 before |-> users[s], after |-> after]
<1>1. s \in Subjects /\ forms[t].actor \in Subjects /\ forms[t].read \in User
  BY DEF Wrote
<1>2. e \in Entry
  BY <1>1 DEF Entry, Actions, TypeOK
<1>3. NoForm \in Forms BY DEF Forms
<1>4. users' \in [Subjects -> User]
  BY <1>1 DEF Wrote, TypeOK
<1>5. audit' \in Seq(Entry) /\ Len(audit') = Len(audit) + 1
  <2>1. audit' = Append(audit, e) BY DEF Wrote
  <2> HIDE DEF e
  <2> QED BY <1>2, <2>1 DEF TypeOK
<1>6. seen' \in Seq(User) /\ Len(seen') = Len(seen) + 1
  BY <1>1 DEF Wrote, TypeOK
<1>7. forms' \in [Tabs -> Forms]
  BY <1>3 DEF Wrote, TypeOK
<1> QED BY <1>4, <1>5, <1>6, <1>7 DEF TypeOK

LEMMA FormType ==
  ASSUME TypeOK, FormStep
  PROVE  TypeOK'
BY DEF FormStep, TypeOK

LEMMA TypeStep == TypeOK /\ [Next]_vars => TypeOK'
<1> SUFFICES ASSUME TypeOK, [Next]_vars PROVE TypeOK' OBVIOUS
<1>1. CASE Next BY <1>1, StepCases, BootType, WroteType, FormType
<1>2. CASE UNCHANGED vars BY <1>2 DEF vars, TypeOK
<1> QED BY <1>1, <1>2

(* Rows keep the shape of their tables, for every instance.                *)
THEOREM TypeCorrect == Spec => []TypeOK
BY InitType, TypeStep, PTL DEF Spec
-----------------------------------------------------------------------------
(* An administrator that was imported, one whose authority allowed the     *)
(* write, or the other one that the write requires.                        *)
LEMMA AdminStep == TypeOK /\ AnAdminRemains /\ [Next]_vars => AnAdminRemains'
<1> SUFFICES ASSUME TypeOK, AnAdminRemains, [Next]_vars, audit' # << >>
             PROVE  \E s \in Subjects : IsAdmin(users'[s])
  BY DEF AnAdminRemains, IsAdmin
<1>1. CASE Boot
  <2>1. PICK n \in DOMAIN Configured : Configured[n].admin BY <1>1 DEF Boot
  <2>2. users'[Configured[n].subject] = Imported(Configured[n]) BY <1>1, <2>1, BootWrites
  <2> QED BY <2>1, <2>2, ImportedType
<1>2. CASE UNCHANGED <<users, audit>>
  BY <1>2 DEF AnAdminRemains
<1>3. ASSUME NEW t \in Tabs, NEW action \in {"CREATE", "UPDATE"}, NEW after \in User,
             Wrote(t, action, after)
      PROVE  \E s \in Subjects : IsAdmin(users'[s])
  <2> DEFINE s == forms[t].subject
             a == forms[t].actor
  <2>1. s \in Subjects /\ a \in Subjects /\ IsAdmin(users[a]) BY <1>3 DEF Wrote
  <2>2. users' = [users EXCEPT ![s] = after] /\ users \in [Subjects -> User]
    BY <1>3 DEF Wrote, TypeOK
  <2>3. CASE IsAdmin(after) BY <2>1, <2>2, <2>3
  <2>4. CASE ~IsAdmin(after) /\ IsAdmin(users[s])
    <3>1. PICK other \in Subjects \ {s} : IsAdmin(users[other])
      BY <1>3, <2>4 DEF Wrote
    <3> QED BY <3>1, <2>1, <2>2
  <2>5. CASE ~IsAdmin(users[s])
    <3>1. a # s BY <2>1, <2>5
    <3> QED BY <3>1, <2>1, <2>2
  <2> QED BY <2>3, <2>4, <2>5
<1> QED BY <1>1, <1>2, <1>3, StepCases DEF vars, FormStep

(* USR-05: somebody can always administer a directory that was filled.     *)
THEOREM LastAdministratorStays == Spec => []AnAdminRemains
<1>1. Init => AnAdminRemains BY DEF Init, AnAdminRemains
<1> QED BY <1>1, InitType, TypeStep, AdminStep, PTL DEF Spec
-----------------------------------------------------------------------------
(* An empty directory has an empty trail, so nothing is imported twice.    *)
LEMMA EmptyTrail ==
  ASSUME TypeOK, AuditReplays, \A s \in Subjects : users[s] = NoUser
  PROVE  audit = << >>
<1> SUFFICES ASSUME audit # << >> PROVE FALSE OBVIOUS
<1> DEFINE n == Len(audit)
           s == audit[n].subject
<1>1. n \in Nat \ {0} /\ n \in DOMAIN audit /\ audit[n] \in Entry
  BY DEF TypeOK
<1>2. LogSays(s, n + 1, users[s]) /\ users[s] = NoUser /\ audit[n].before \in User
      /\ (s \in Subjects)
  BY <1>1 DEF AuditReplays, Entry
<1>3. audit[n].after.version = audit[n].before.version + 1 BY <1>1 DEF AuditReplays
<1>4. users[s] = audit[n].after
  BY <1>1, <1>2 DEF LogSays, LatestBefore
<1> QED BY <1>2, <1>3, <1>4, NoUserType DEF User

(* What the trail said before an entry it still says afterwards.           *)
LEMMA TrailGrows ==
  ASSUME TypeOK, NEW e \in Entry, audit' = Append(audit, e)
  PROVE  /\ Len(audit') = Len(audit) + 1 /\ DOMAIN audit' = 1..(Len(audit) + 1)
         /\ audit'[Len(audit) + 1] = e
         /\ \A m \in 1..Len(audit) : audit'[m] = audit[m]
         /\ \A s, u : \A n \in 1..(Len(audit) + 1) : LogSays(s, n, u) => LogSays(s, n, u)'
         /\ \A s : \A n \in 1..(Len(audit) + 1), m \in Nat :
               LatestBefore(s, n, m) => LatestBefore(s, n, m)'
<1>1. Len(audit) \in Nat /\ DOMAIN audit = 1..Len(audit)
  BY DEF TypeOK
<1>2. /\ Len(audit') = Len(audit) + 1 /\ DOMAIN audit' = 1..(Len(audit) + 1)
      /\ audit'[Len(audit) + 1] = e
      /\ \A m \in 1..Len(audit) : audit'[m] = audit[m]
  BY <1>1 DEF TypeOK
<1>3. \A s : \A n \in 1..(Len(audit) + 1), m \in Nat :
         LatestBefore(s, n, m) => LatestBefore(s, n, m)'
  BY <1>1, <1>2 DEF LatestBefore
<1>4. \A s, u : \A n \in 1..(Len(audit) + 1) : LogSays(s, n, u) => LogSays(s, n, u)'
  BY <1>1, <1>2 DEF LogSays, LatestBefore
<1> QED BY <1>2, <1>3, <1>4

LEMMA ReplayBoot ==
  ASSUME TypeOK, AuditReplays, Boot
  PROVE  AuditReplays'
<1>1. audit = << >> BY BootWrites, EmptyTrail
<1>2. DOMAIN audit' = 1..Len(audit') /\ Len(audit') \in Nat
  BY BootType DEF TypeOK
<1>3. \A n \in DOMAIN audit' : n \in DOMAIN Configured
  BY BootWrites
<1>4. ASSUME NEW n \in DOMAIN audit'
      PROVE  /\ LogSays(audit[n].subject, n, audit[n].before)'
             /\ audit'[n].after.version = audit'[n].before.version + 1
  <2>1. audit'[n].before = NoUser /\ audit'[n].after.version = 1
    BY <1>3, <1>4, BootWrites, ImportedType
  <2>2. \A m \in 1..(n - 1) : audit'[m].subject # audit'[n].subject
    BY <1>2, <1>3, BootWrites, AccessAssumption
  <2> QED BY <2>1, <2>2, NoUserType DEF LogSays
<1>5. ASSUME NEW s \in Subjects
      PROVE  LogSays(s, Len(audit) + 1, users[s])'
  <2>1. CASE \E n \in DOMAIN Configured : Configured[n].subject = s
    <3>1. PICK n \in DOMAIN Configured : Configured[n].subject = s BY <2>1
    <3>2. users'[s] = audit'[n].after /\ audit'[n].subject = s /\ n \in DOMAIN audit'
      BY <3>1, BootWrites
    <3>3. \A k \in DOMAIN audit' : k # n => audit'[k].subject # s
      BY <3>1, BootWrites, AccessAssumption
    <3>4. LatestBefore(s, Len(audit) + 1, n)'
      BY <1>2, <3>2, <3>3 DEF LatestBefore
    <3>5. n \in 1..(Len(audit') + 1 - 1) BY <1>2, <3>2
    <3> QED BY <3>2, <3>4, <3>5 DEF LogSays
  <2>2. CASE \A n \in DOMAIN Configured : Configured[n].subject # s
    <3>1. users'[s] = NoUser BY <2>2, BootWrites
    <3>2. \A m \in 1..(Len(audit') + 1 - 1) : audit'[m].subject # s
      BY <1>2, <1>3, <2>2, BootWrites
    <3> QED BY <3>1, <3>2 DEF LogSays
  <2> QED BY <2>1, <2>2
<1> QED BY <1>4, <1>5 DEF AuditReplays

LEMMA ReplayWrote ==
  ASSUME TypeOK, AuditReplays,
         NEW t \in Tabs, NEW action \in {"CREATE", "UPDATE"}, NEW after \in User,
         Wrote(t, action, after)
  PROVE  AuditReplays'
<1>1. PICK s \in Subjects, actor \in Subjects :
        /\ s = forms[t].subject /\ actor = forms[t].actor
        /\ after.version = users[s].version + 1
  BY DEF Wrote
<1>2. PICK e \in Entry :
        /\ audit' = Append(audit, e)
        /\ e.subject = s /\ e.before = users[s] /\ e.after = after
  <2> DEFINE e == [actor |-> actor, action |-> action, subject |-> s,
                   before |-> users[s], after |-> after]
  <2>1. e \in Entry BY <1>1 DEF Entry, Actions, TypeOK
  <2>2. audit' = Append(audit, e) BY <1>1 DEF Wrote
  <2> QED BY <2>1, <2>2
<1>3. users' = [users EXCEPT ![s] = after] /\ users \in [Subjects -> User]
  BY <1>1 DEF Wrote, TypeOK
<1>4. Len(audit) \in Nat /\ DOMAIN audit = 1..Len(audit) BY DEF TypeOK
<1>5. ASSUME NEW n \in DOMAIN audit'
      PROVE  /\ LogSays(audit[n].subject, n, audit[n].before)'
             /\ audit'[n].after.version = audit'[n].before.version + 1
  <2>1. CASE n \in DOMAIN audit
    <3>1. audit'[n] = audit[n] BY <1>2, <1>4, <2>1, TrailGrows
    <3>2. LogSays(audit[n].subject, n, audit[n].before)
          /\ audit[n].after.version = audit[n].before.version + 1
      BY <2>1 DEF AuditReplays
    <3>3. PICK x, u : x = audit[n].subject /\ u = audit[n].before OBVIOUS
    <3>4. LogSays(x, n, u)'
      BY <1>2, <1>4, <2>1, <3>2, <3>3, TrailGrows
    <3> QED BY <3>1, <3>2, <3>3, <3>4 DEF LogSays, LatestBefore
  <2>2. CASE n = Len(audit) + 1
    <3>1. audit'[n] = e BY <1>2, <2>2, TrailGrows
    <3>2. PICK u : u = users[s] /\ LogSays(s, Len(audit) + 1, u) BY DEF AuditReplays
    <3>3. PICK k : k = Len(audit) + 1 /\ LogSays(s, k, u) BY <3>2
    <3>4. LogSays(s, k, u)' BY <1>2, <1>4, <3>3, TrailGrows
    <3> QED BY <1>1, <1>2, <2>2, <3>1, <3>2, <3>3, <3>4 DEF LogSays, LatestBefore
  <2> QED BY <1>2, <1>4, <2>1, <2>2, TrailGrows
<1>6. ASSUME NEW x \in Subjects
      PROVE  LogSays(x, Len(audit) + 1, users[x])'
  <2>1. CASE x = s
    <3>1. users'[x] = after BY <1>3, <2>1
    <3>2. audit'[Len(audit')] = e /\ Len(audit') = Len(audit) + 1 BY <1>2, TrailGrows
    <3>3. LatestBefore(x, Len(audit) + 1, Len(audit))'
      BY <1>2, <1>4, <2>1, <3>2 DEF LatestBefore
    <3> QED BY <1>2, <1>4, <3>1, <3>2, <3>3 DEF LogSays
  <2>2. CASE x # s
    <3>1. users'[x] = users[x] BY <1>3, <2>2
    <3>2. LogSays(x, Len(audit) + 1, users[x]) BY DEF AuditReplays
    <3>3. /\ Len(audit') = Len(audit) + 1 /\ audit'[Len(audit) + 1].subject # x
          /\ \A m \in 1..Len(audit) : audit'[m] = audit[m]
      BY <1>2, <2>2, TrailGrows
    <3>4. CASE users[x] = NoUser /\ \A m \in 1..Len(audit) : audit[m].subject # x
      <4>1. \A m \in 1..(Len(audit') + 1 - 1) : audit'[m].subject # x
        BY <1>4, <3>3, <3>4
      <4> QED BY <3>1, <3>4, <4>1 DEF LogSays
    <3>5. CASE \E m \in 1..Len(audit) :
                 LatestBefore(x, Len(audit) + 1, m) /\ users[x] = audit[m].after
      <4>1. PICK m \in 1..Len(audit) :
              LatestBefore(x, Len(audit) + 1, m) /\ users[x] = audit[m].after
        BY <3>5
      <4>2. LatestBefore(x, Len(audit) + 1, m)'
        BY <1>4, <3>3, <4>1 DEF LatestBefore
      <4> QED BY <1>4, <3>1, <3>3, <4>1, <4>2 DEF LogSays
    <3> QED BY <1>4, <3>2, <3>4, <3>5 DEF LogSays
  <2> QED BY <2>1, <2>2
<1> QED BY <1>5, <1>6 DEF AuditReplays

LEMMA ReplayStep == TypeOK /\ AuditReplays /\ [Next]_vars => AuditReplays'
<1> SUFFICES ASSUME TypeOK, AuditReplays, [Next]_vars PROVE AuditReplays' OBVIOUS
<1>1. CASE UNCHANGED <<users, audit>>
  BY <1>1 DEF AuditReplays, LogSays, LatestBefore
<1> QED BY <1>1, StepCases, ReplayBoot, ReplayWrote DEF vars, FormStep

(* USR-06: the trail replays the directory, whatever restarts and however  *)
(* many administrators write at once.                                      *)
THEOREM TrailReplays == Spec => []AuditReplays
<1>1. Init => AuditReplays BY DEF Init, AuditReplays, LogSays
<1> QED BY <1>1, InitType, TypeStep, ReplayStep, PTL DEF Spec
-----------------------------------------------------------------------------
LEMMA AuthorityStep ==
  TypeOK /\ AuditReplays /\ AuthorityInTrail /\ [Next]_vars => AuthorityInTrail'
<1> SUFFICES ASSUME TypeOK, AuditReplays, AuthorityInTrail, [Next]_vars
             PROVE  AuthorityInTrail'
  OBVIOUS
<1>1. CASE Boot BY <1>1, BootWrites DEF AuthorityInTrail
<1>2. CASE UNCHANGED <<users, audit>>
  BY <1>2 DEF AuthorityInTrail, LatestBefore
<1>3. ASSUME NEW t \in Tabs, NEW action \in {"CREATE", "UPDATE"}, NEW after \in User,
             Wrote(t, action, after)
      PROVE  AuthorityInTrail'
  <2>1. PICK s \in Subjects, actor \in Subjects :
          s = forms[t].subject /\ actor = forms[t].actor /\ IsAdmin(users[actor])
    BY <1>3 DEF Wrote
  <2>2. PICK e \in Entry : audit' = Append(audit, e) /\ e.actor = actor
    <3> DEFINE e == [actor |-> actor, action |-> action, subject |-> s,
                     before |-> users[s], after |-> after]
    <3>1. e \in Entry BY <2>1 DEF Entry, Actions, TypeOK
    <3>2. audit' = Append(audit, e) BY <1>3, <2>1 DEF Wrote
    <3> QED BY <3>1, <3>2
  <2>3. Len(audit) \in Nat /\ DOMAIN audit = 1..Len(audit) BY DEF TypeOK
  <2>4. PICK k \in Nat : k = Len(audit) + 1 BY <2>3
  <2>5. LogSays(actor, k, users[actor]) BY <2>4 DEF AuditReplays
  <2>6. PICK m \in 1..(k - 1) : LatestBefore(actor, k, m) /\ IsAdmin(audit[m].after)
    BY <2>1, <2>5, NoUserType DEF LogSays
  <2>7. LatestBefore(actor, k, m)' /\ audit'[m] = audit[m]
    BY <2>2, <2>3, <2>4, <2>6, TrailGrows
  <2>8. ASSUME NEW n \in DOMAIN audit', audit'[n].action # "BOOTSTRAP"
        PROVE  \E j \in 1..(n - 1) :
                  LatestBefore(audit[n].actor, n, j)' /\ IsAdmin(audit'[j].after)
    <3>1. CASE n \in DOMAIN audit
      <4>1. audit'[n] = audit[n] BY <2>2, <2>3, <3>1, TrailGrows
      <4>2. PICK j \in 1..(n - 1), x \in {audit[n].actor} :
              LatestBefore(x, n, j) /\ IsAdmin(audit[j].after)
        BY <2>8, <3>1, <4>1 DEF AuthorityInTrail
      <4>3. LatestBefore(x, n, j)' /\ audit'[j] = audit[j]
        BY <2>2, <2>3, <3>1, <4>2, TrailGrows
      <4> QED BY <4>1, <4>2, <4>3 DEF LatestBefore
    <3>2. CASE n = k
      <4>1. audit'[n] = e BY <2>2, <2>3, <2>4, <3>2, TrailGrows
      <4>2. audit'[n].actor = actor BY <4>1, <2>2
      <4> QED BY <2>6, <2>7, <3>2, <4>2 DEF LatestBefore
    <3> QED BY <2>2, <2>3, <2>4, <3>1, <3>2, TrailGrows
  <2> QED BY <2>8 DEF AuthorityInTrail, LatestBefore
<1> QED BY <1>1, <1>2, <1>3, StepCases DEF vars, FormStep

(* USR-05: every change was made by somebody the trail shows could make it.*)
THEOREM AuthorsCouldAdminister == Spec => []AuthorityInTrail
<1>1. Init => AuthorityInTrail BY DEF Init, AuthorityInTrail
<1>2. Init => AuditReplays BY DEF Init, AuditReplays, LogSays
<1> QED BY <1>1, <1>2, InitType, TypeStep, ReplayStep, AuthorityStep, PTL DEF Spec
-----------------------------------------------------------------------------
LEMMA FreshStep == TypeOK /\ FormsFresh /\ [Next]_vars => FormsFresh'
<1> SUFFICES ASSUME TypeOK, FormsFresh, [Next]_vars,
                    NEW t \in Tabs, forms'[t] # NoForm
             PROVE  LET row == users'[forms'[t].subject]
                    IN  /\ forms'[t].read.version <= row.version
                        /\ forms'[t].read.version = row.version => forms'[t].read = row
  BY DEF FormsFresh
<1>1. CASE Boot
  <2>1. forms' = forms /\ forms[t] \in Forms BY <1>1 DEF Boot, TypeOK
  <2>2. forms[t].subject \in Subjects /\ forms[t].read \in User BY <1>1, <2>1 DEF Forms
  <2>3. users[forms[t].subject] = NoUser BY <1>1, <2>2, BootWrites
  <2>4. forms[t].read.version = 0 /\ forms[t].read = NoUser
    BY <1>1, <2>1, <2>2, <2>3, NoUserType DEF FormsFresh, User
  <2>5. CASE \E n \in DOMAIN Configured : Configured[n].subject = forms[t].subject
    <3>1. users'[forms[t].subject].version = 1 BY <1>1, <2>5, BootWrites, ImportedType
    <3> QED BY <2>1, <2>4, <3>1
  <2>6. CASE \A n \in DOMAIN Configured : Configured[n].subject # forms[t].subject
    <3>1. users'[forms[t].subject] = NoUser BY <1>1, <2>2, <2>6, BootWrites
    <3> QED BY <2>1, <2>4, <3>1, NoUserType
  <2> QED BY <2>5, <2>6
<1>2. CASE FormStep
  <2>1. PICK q \in Tabs, f \in Forms :
          /\ forms' = [forms EXCEPT ![q] = f]
          /\ f # NoForm => /\ f.subject \in Subjects
                           /\ \/ f.read = users[f.subject]
                              \/ /\ forms[q] # NoForm
                                 /\ f.read = forms[q].read
                                 /\ f.subject = forms[q].subject
    BY <1>2 DEF FormStep
  <2>2. users' = users BY <1>2 DEF FormStep
  <2>3. CASE q # t BY <2>1, <2>2, <2>3 DEF FormsFresh, TypeOK
  <2>4. CASE q = t
    <3>1. forms'[t] = f BY <2>1, <2>4 DEF TypeOK
    <3>2. CASE f.read = users[f.subject] BY <2>1, <2>2, <3>1, <3>2 DEF TypeOK, User
    <3>3. CASE forms[q] # NoForm /\ f.read = forms[q].read /\ f.subject = forms[q].subject
      BY <2>2, <2>4, <3>1, <3>3 DEF FormsFresh
    <3> QED BY <2>1, <3>1, <3>2, <3>3
  <2> QED BY <2>3, <2>4
<1>3. ASSUME NEW q \in Tabs, NEW action \in {"CREATE", "UPDATE"}, NEW after \in User,
             Wrote(q, action, after)
      PROVE  LET row == users'[forms'[t].subject]
             IN  /\ forms'[t].read.version <= row.version
                 /\ forms'[t].read.version = row.version => forms'[t].read = row
  <2>1. forms' = [forms EXCEPT ![q] = NoForm] BY <1>3 DEF Wrote
  <2>2. t # q /\ forms'[t] = forms[t] BY <2>1 DEF TypeOK
  <2>3. forms[t] \in Forms /\ forms[t] # NoForm BY <2>2 DEF TypeOK
  <2>4. forms[t].read \in User /\ forms[t].subject \in Subjects BY <2>3 DEF Forms
  <2>5. PICK s \in Subjects : /\ s = forms[q].subject
                              /\ users' = [users EXCEPT ![s] = after]
                              /\ after.version = users[s].version + 1
    BY <1>3 DEF Wrote
  <2>6. users[s] \in User /\ users \in [Subjects -> User] BY DEF TypeOK
  <2>7. CASE forms[t].subject = s
    <3>1. users'[s] = after BY <2>5, <2>6
    <3>2. forms[t].read.version <= users[s].version BY <2>3, <2>7 DEF FormsFresh
    <3>3. forms[t].read.version < after.version BY <2>4, <2>5, <2>6, <3>2 DEF User
    <3> QED BY <2>2, <2>4, <2>7, <3>1, <3>3 DEF User
  <2>8. CASE forms[t].subject # s
    <3>1. users'[forms[t].subject] = users[forms[t].subject] BY <2>4, <2>5, <2>6, <2>8
    <3> QED BY <2>2, <2>3, <3>1 DEF FormsFresh
  <2> QED BY <2>7, <2>8
<1>4. CASE UNCHANGED vars BY <1>4 DEF vars, FormsFresh
<1> QED BY <1>1, <1>2, <1>3, <1>4, StepCases

LEMMA ReplacesStep ==
  TypeOK /\ FormsFresh /\ ReplacesWhatWasRead /\ [Next]_vars => ReplacesWhatWasRead'
<1> SUFFICES ASSUME TypeOK, FormsFresh, ReplacesWhatWasRead, [Next]_vars
             PROVE  ReplacesWhatWasRead'
  OBVIOUS
<1>1. CASE Boot BY <1>1, BootWrites DEF ReplacesWhatWasRead
<1>2. CASE UNCHANGED <<audit, seen>> BY <1>2 DEF ReplacesWhatWasRead
<1>3. ASSUME NEW t \in Tabs, NEW action \in {"CREATE", "UPDATE"}, NEW after \in User,
             Wrote(t, action, after)
      PROVE  ReplacesWhatWasRead'
  <2>1. PICK s \in Subjects, actor \in Subjects, read \in User :
          /\ s = forms[t].subject /\ actor = forms[t].actor /\ read = forms[t].read
          /\ forms[t] # NoForm /\ seen' = Append(seen, read)
          /\ action = "UPDATE" => read.version = users[s].version
    BY <1>3 DEF Wrote
  <2>2. PICK e \in Entry : /\ audit' = Append(audit, e)
                           /\ e.action = action /\ e.before = users[s]
    <3> DEFINE e == [actor |-> actor, action |-> action, subject |-> s,
                     before |-> users[s], after |-> after]
    <3>1. e \in Entry BY <2>1 DEF Entry, Actions, TypeOK
    <3>2. audit' = Append(audit, e) BY <1>3, <2>1 DEF Wrote
    <3> QED BY <3>1, <3>2
  <2>3. action = "UPDATE" => read = users[s] BY <2>1 DEF FormsFresh
  <2>4. /\ Len(audit) \in Nat /\ DOMAIN audit = 1..Len(audit) /\ Len(seen) = Len(audit)
        /\ DOMAIN seen = 1..Len(audit)
    BY DEF TypeOK
  <2>5. /\ seen'[Len(audit) + 1] = read
        /\ \A n \in 1..Len(audit) : seen'[n] = seen[n]
    BY <2>1, <2>4 DEF TypeOK
  <2>6. ASSUME NEW n \in DOMAIN audit', audit'[n].action = "UPDATE"
        PROVE  audit'[n].before = seen'[n]
    <3>1. CASE n \in DOMAIN audit
      <4>1. audit'[n] = audit[n] /\ seen'[n] = seen[n]
        BY <2>2, <2>4, <2>5, <3>1, TrailGrows
      <4> QED BY <2>6, <3>1, <4>1 DEF ReplacesWhatWasRead
    <3>2. CASE n = Len(audit) + 1
      <4>1. audit'[n] = e /\ seen'[n] = read BY <2>2, <2>5, <3>2, TrailGrows
      <4> QED BY <2>2, <2>3, <2>6, <4>1
    <3> QED BY <2>2, <2>4, <3>1, <3>2, TrailGrows
  <2> QED BY <2>6 DEF ReplacesWhatWasRead
<1> QED BY <1>1, <1>2, <1>3, StepCases DEF vars, FormStep

(* USR-05: an edit replaces exactly the row its author had read, although  *)
(* other administrators write between the reading and the writing.         *)
THEOREM EditsReplaceWhatWasRead == Spec => []ReplacesWhatWasRead
<1>1. Init => ReplacesWhatWasRead BY DEF Init, ReplacesWhatWasRead
<1>2. Init => FormsFresh BY DEF Init, FormsFresh
<1> QED BY <1>1, <1>2, InitType, TypeStep, FreshStep, ReplacesStep, PTL DEF Spec
=============================================================================
