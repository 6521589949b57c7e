----------------------------- MODULE UserAccess -----------------------------
(***************************************************************************)
(* The directory of users, UserAccessService: who may enter, who may       *)
(* administer, and the trail of every change.  Each write is a transaction *)
(* under one advisory lock, so its check of the permission, of the version *)
(* and of the last administrator, its write and its audit entry are one    *)
(* step.  What is not under the lock are the moments before it: an         *)
(* administrator reads the list, a later request passes the guard of the   *)
(* controller, and its transaction runs when the lock is free; anything    *)
(* may happen in between, a restart of a process included.                 *)
(***************************************************************************)
EXTENDS Integers, Sequences

CONSTANTS
    Subjects,   \* accounts of the identity provider
    Configured, \* AUTH_OIDC_ACTORS: <<[subject, admin], ...>>
    Tabs,       \* places an administrator may be editing from
    MaxEntries  \* bound on the rows of user_audit

Bootstrap == "SYSTEM:bootstrap"

ASSUME AccessAssumption ==
    /\ Configured \in Seq([subject : Subjects, admin : BOOLEAN])
    /\ \A m, n \in DOMAIN Configured :
          Configured[m].subject = Configured[n].subject => m = n
    /\ MaxEntries \in Nat
    /\ Bootstrap \notin Subjects

VARIABLES
    users, \* auth.users of the configured issuer, by subject
    audit, \* auth.user_audit, in the order its rows commit
    forms, \* per tab, the edit in progress
    seen   \* history: for each entry of audit, what its author had read

vars == <<users, audit, forms, seen>>
-----------------------------------------------------------------------------
(* An account that is not registered has no row: version 0.                *)
NoUser == [admin |-> FALSE, active |-> FALSE, version |-> 0]

User == [admin : BOOLEAN, active : BOOLEAN, version : Nat]

IsAdmin(u) == u.active /\ u.admin

Actions == {"BOOTSTRAP", "CREATE", "UPDATE"}

Entry == [actor : Subjects \cup {Bootstrap}, action : Actions,
          subject : Subjects, before : User, after : User]

Form(step, actor, subject, read) ==
    [step |-> step, actor |-> actor, subject |-> subject, read |-> read]

NoForm == Form("IDLE", Bootstrap, Bootstrap, NoUser)

Forms == {NoForm} \cup [step : {"READ", "ADMITTED"}, actor : Subjects,
                       subject : Subjects, read : User]

Imported(actor) == [admin |-> actor.admin, active |-> TRUE, version |-> 1]

Init ==
    /\ users = [s \in Subjects |-> NoUser]
    /\ audit = << >>
    /\ forms = [t \in Tabs |-> NoForm]
    /\ seen = << >>

(* Mutant: every process that starts imports its configuration.            *)
BootAlways ==
    /\ Len(audit) < MaxEntries
    /\ users' = [s \in Subjects |->
         IF \E n \in DOMAIN Configured : Configured[n].subject = s
         THEN Imported(Configured[CHOOSE n \in DOMAIN Configured :
                                    Configured[n].subject = s])
         ELSE users[s]]
    /\ audit' = audit \o [n \in DOMAIN Configured |->
         [actor |-> Bootstrap, action |-> "BOOTSTRAP",
          subject |-> Configured[n].subject, before |-> NoUser,
          after |-> Imported(Configured[n])]]
    /\ seen' = seen \o [n \in DOMAIN Configured |-> NoUser]
    /\ UNCHANGED forms

(* onModuleInit, in any process that starts: what is configured is         *)
(* imported into an empty directory only, and needs an administrator.      *)
Boot ==
    /\ \A s \in Subjects : users[s] = NoUser
    /\ \E n \in DOMAIN Configured : Configured[n].admin
    /\ users' = [s \in Subjects |->
         IF \E n \in DOMAIN Configured : Configured[n].subject = s
         THEN Imported(Configured[CHOOSE n \in DOMAIN Configured :
                                    Configured[n].subject = s])
         ELSE NoUser]
    /\ audit' = [n \in DOMAIN Configured |->
         [actor |-> Bootstrap, action |-> "BOOTSTRAP",
          subject |-> Configured[n].subject, before |-> NoUser,
          after |-> Imported(Configured[n])]]
    /\ seen' = [n \in DOMAIN Configured |-> NoUser]
    /\ UNCHANGED forms
-----------------------------------------------------------------------------
(* list: an administrator reads the row of an account, or that it has none.*)
Read(t, actor, subject) ==
    /\ forms[t] = NoForm
    /\ IsAdmin(users[actor])
    /\ forms' = [forms EXCEPT ![t] = Form("READ", actor, subject, users[subject])]
    /\ UNCHANGED <<users, audit, seen>>

(* AuthGuard and the roles of the controller, when the change is sent.     *)
Admit(t) ==
    /\ forms[t].step = "READ"
    /\ IsAdmin(users[forms[t].actor])
    /\ forms' = [forms EXCEPT ![t] =
         Form("ADMITTED", forms[t].actor, forms[t].subject, forms[t].read)]
    /\ UNCHANGED <<users, audit, seen>>

(* The change is refused at any point, or its request is lost.             *)
Leave(t) ==
    /\ forms[t] # NoForm
    /\ forms' = [forms EXCEPT ![t] = NoForm]
    /\ UNCHANGED <<users, audit, seen>>

(* Mutant: the guard of the controller is trusted.                         *)
MayWriteAdmitted(t) == forms[t].step = "ADMITTED"

(* assertAdmin, under the lock.                                            *)
MayWrite(t) == forms[t].step = "ADMITTED" /\ IsAdmin(users[forms[t].actor])

(* Mutant: the row keeps its version.                                      *)
WriteUnversioned(t, action, admin, active) ==
    LET s     == forms[t].subject
        after == [admin |-> admin, active |-> active,
                  version |-> IF action = "CREATE" THEN 1 ELSE users[s].version]
    IN  /\ Len(audit) < MaxEntries
        /\ users' = [users EXCEPT ![s] = after]
        /\ audit' = Append(audit, [actor |-> forms[t].actor, action |-> action,
                                   subject |-> s, before |-> users[s], after |-> after])
        /\ seen' = Append(seen, forms[t].read)
        /\ forms' = [forms EXCEPT ![t] = NoForm]

(* The row and its audit entry, in one transaction.                        *)
Write(t, action, admin, active) ==
    LET s     == forms[t].subject
        after == [admin |-> admin, active |-> active, version |-> users[s].version + 1]
    IN  /\ Len(audit) < MaxEntries
        /\ users' = [users EXCEPT ![s] = after]
        /\ audit' = Append(audit, [actor |-> forms[t].actor, action |-> action,
                                   subject |-> s, before |-> users[s], after |-> after])
        /\ seen' = Append(seen, forms[t].read)
        /\ forms' = [forms EXCEPT ![t] = NoForm]

(* create: an account that is not registered.                              *)
Create(t, admin, active) ==
    /\ MayWrite(t)
    /\ users[forms[t].subject] = NoUser
    /\ Write(t, "CREATE", admin, active)

(* Mutant: an administrator who was deactivated counts.                    *)
KeepsAnAdminAnyState(s, admin, active) ==
    IsAdmin(users[s]) /\ ~(admin /\ active) =>
       \E other \in Subjects \ {s} : users[other].admin

(* LAST_ACTIVE_ADMIN.                                                      *)
KeepsAnAdmin(s, admin, active) ==
    IsAdmin(users[s]) /\ ~(admin /\ active) =>
       \E other \in Subjects \ {s} : IsAdmin(users[other])

(* update: the row must still have the version that was read.              *)
Update(t, admin, active) ==
    LET s == forms[t].subject
    IN  /\ MayWrite(t)
        /\ users[s] # NoUser
        /\ users[s].version = forms[t].read.version
        /\ KeepsAnAdmin(s, admin, active)
        /\ Write(t, "UPDATE", admin, active)
-----------------------------------------------------------------------------
Next ==
    \/ Boot
    \/ \E t \in Tabs, actor, subject \in Subjects : Read(t, actor, subject)
    \/ \E t \in Tabs : Admit(t) \/ Leave(t)
    \/ \E t \in Tabs, admin, active \in BOOLEAN :
          Create(t, admin, active) \/ Update(t, admin, active)

Spec == Init /\ [][Next]_vars
-----------------------------------------------------------------------------
(* Rows have the shape of their tables.                                    *)
TypeOK ==
    /\ users \in [Subjects -> User]
    /\ audit \in Seq(Entry)
    /\ forms \in [Tabs -> Forms]
    /\ seen \in Seq(User)
    /\ Len(seen) = Len(audit)

(* USR-05 of SPEC-AUTH-002: once the directory has been filled somebody    *)
(* can always administer it, although two administrators may remove each   *)
(* other, or themselves, at the same moment.                               *)
AnAdminRemains == audit # << >> => \E s \in Subjects : IsAdmin(users[s])

(* The entry of the trail that says what an account was before the n-th.   *)
LatestBefore(s, n, m) ==
    /\ m \in 1..(n - 1)
    /\ audit[m].subject = s
    /\ \A k \in (m + 1)..(n - 1) : audit[k].subject # s

LogSays(s, n, u) ==
    \/ u = NoUser /\ \A m \in 1..(n - 1) : audit[m].subject # s
    \/ \E m \in 1..(n - 1) : LatestBefore(s, n, m) /\ u = audit[m].after

(* USR-06: the trail replays.  Every entry starts where the one before it  *)
(* for the same account ended, one version later, and the last ones are    *)
(* the directory: no change is missing from it and none is told twice,     *)
(* across restarts and imports.                                            *)
AuditReplays ==
    /\ \A n \in DOMAIN audit :
          /\ LogSays(audit[n].subject, n, audit[n].before)
          /\ audit[n].after.version = audit[n].before.version + 1
    /\ \A s \in Subjects : LogSays(s, Len(audit) + 1, users[s])

(* USR-05: by the trail alone, the author of every change could administer *)
(* when it was made, and not only when the request passed the guard.       *)
AuthorityInTrail ==
    \A n \in DOMAIN audit :
       audit[n].action # "BOOTSTRAP" =>
          \E m \in 1..(n - 1) :
             LatestBefore(audit[n].actor, n, m) /\ IsAdmin(audit[m].after)

(* USR-05: a change replaces what its author had in front of them, never   *)
(* what somebody else wrote meanwhile.                                     *)
ReplacesWhatWasRead ==
    \A n \in DOMAIN audit :
       audit[n].action = "UPDATE" => audit[n].before = seen[n]
=============================================================================
