-------------------------- MODULE AccountsProofs --------------------------
(***************************************************************************)
(* Proofs about Accounts, for any number of threads, addresses, passwords  *)
(* and salts, and wherever threads die: only registered credentials are    *)
(* accepted, and an account does not change once the registrations that    *)
(* raced for it are over.                                                  *)
(***************************************************************************)
EXTENDS Accounts, TLAPS

\* The registration was confirmed, or was saved and will be, or never was.
Registered(email, password) ==
    \/ <<email, password>> \in confirmed \cup unanswered
    \/ \E u \in Threads : Answering(u, email, password)

\* A stored password is the hash of one that was registered for the address.
StoredRegistered ==
    \A m \in Emails :
        accounts[m] # None =>
            /\ accounts[m].digest[1] = accounts[m].salt
            /\ Registered(m, accounts[m].digest[2])

\* A registration under way carries the hash of its own password.
HashesOwn ==
    \A t \in Threads :
        req[t] # None => req[t].hashed.digest = <<req[t].hashed.salt, req[t].password>>

IInv == TypeOK /\ StoredRegistered /\ HashesOwn /\ LoginOnlyRegistered

-----------------------------------------------------------------------------

\* There are no accounts and no registrations at first.
LEMMA InitInv == Init => IInv
BY DEF Init, IInv, TypeOK, StoredRegistered, HashesOwn, LoginOnlyRegistered, Answer, Status

\* What is stored and what was accepted stay registered.
LEMMA StayRegistered ==
    ASSUME \A m, p : Registered(m, p) => Registered(m, p)'
    PROVE  /\ UNCHANGED accounts /\ StoredRegistered => StoredRegistered'
           /\ UNCHANGED answer /\ LoginOnlyRegistered => LoginOnlyRegistered'
<1>1. ASSUME UNCHANGED accounts, StoredRegistered PROVE StoredRegistered'
    BY <1>1 DEF StoredRegistered
<1>2. ASSUME UNCHANGED answer, LoginOnlyRegistered, NEW t \in Threads, answer'[t].status = "accepted"
      PROVE  Registered(answer[t].email, answer[t].password)'
    BY <1>2 DEF LoginOnlyRegistered, Registered
<1> QED BY <1>1, <1>2 DEF LoginOnlyRegistered, Registered

\* An answer that accepts nothing keeps the answers typed and registered.
LEMMA ReplyInv ==
    ASSUME IInv, NEW t \in Threads, NEW status \in Status \ {"accepted"},
           NEW email \in Emails \cup {None, Blank}, NEW password \in Passwords \cup {None, Blank},
           Reply(t, status, email, password), \A m, p : Registered(m, p) => Registered(m, p)'
    PROVE  answer' \in [Threads -> Answer] /\ LoginOnlyRegistered'
<1>1. answer' = [answer EXCEPT ![t] = [status |-> status, email |-> email, password |-> password]]
    BY DEF Reply
<1>2. [status |-> status, email |-> email, password |-> password] \in Answer
    BY DEF Answer
<1>3. answer \in [Threads -> Answer]
    BY DEF IInv, TypeOK
<1>4. answer' \in [Threads -> Answer]
    BY <1>1, <1>2, <1>3
<1>5. ASSUME NEW u \in Threads, answer'[u].status = "accepted"
      PROVE  Registered(answer[u].email, answer[u].password)'
    <2>1. u # t
        BY <1>1, <1>3, <1>5
    <2>2. answer'[u] = answer[u]
        BY <1>1, <1>3, <2>1
    <2>3. Registered(answer[u].email, answer[u].password)
        BY <1>5, <2>2 DEF IInv, LoginOnlyRegistered, Registered
    <2> QED BY <2>2, <2>3
<1> QED BY <1>4, <1>5 DEF LoginOnlyRegistered, Registered

\* RegisterFind
LEMMA FindInv ==
    ASSUME IInv, NEW t \in Threads, NEW email \in Emails \cup {Blank},
           NEW password \in Passwords \cup {Blank}, RegisterFind(t, email, password)
    PROVE  IInv'
<1>1. UNCHANGED <<accounts, confirmed, unanswered>> /\ req[t] = None
    BY DEF RegisterFind
<1>2. req \in [Threads -> Registration \cup {None}]
    BY DEF IInv, TypeOK
<1>3. \A u \in Threads \ {t} : req'[u] = req[u]
    BY <1>2 DEF RegisterFind
<1>4. \A m, p : Registered(m, p) => Registered(m, p)'
    BY <1>1, <1>3 DEF Registered, Answering
<1>5. /\ accounts' \in [Emails -> Hashed \cup {None}] /\ confirmed' \subseteq Emails \X Passwords
      /\ unanswered' \subseteq Emails \X Passwords
    BY <1>1 DEF IInv, TypeOK
<1>6. StoredRegistered'
    BY <1>1, <1>4, StayRegistered DEF IInv
<1>7. CASE Reply(t, "refused", email, password) /\ UNCHANGED req
    <2>1. answer' \in [Threads -> Answer] /\ LoginOnlyRegistered'
        BY <1>4, <1>7, ReplyInv DEF Status
    <2>2. req' \in [Threads -> Registration \cup {None}] /\ HashesOwn'
        BY <1>7 DEF IInv, TypeOK, HashesOwn
    <2> QED BY <1>5, <1>6, <2>1, <2>2 DEF IInv, TypeOK
<1>8. ASSUME NEW salt \in Salts, email # Blank, password # Blank, answer' = answer,
             req' = [req EXCEPT ![t] = Unsaved(email, password, salt)]
      PROVE  IInv'
    <2>1. email \in Emails /\ password \in Passwords
        BY <1>8
    <2>2. HashPassword(password, salt) \in Hashed
        BY <2>1 DEF HashPassword, Hashed
    <2>3. PICK r : r = Unsaved(email, password, salt)
        OBVIOUS
    <2>4. r \in Registration
        BY <2>1, <2>2, <2>3 DEF Registration, Unsaved
    <2>5. r.hashed.digest = <<r.hashed.salt, r.password>>
        BY <2>3 DEF HashPassword, Unsaved
    <2>6. req' = [req EXCEPT ![t] = r]
        BY <1>8, <2>3
    <2>7. req' \in [Threads -> Registration \cup {None}] /\ HashesOwn'
        BY <1>2, <2>4, <2>5, <2>6 DEF IInv, HashesOwn
    <2>8. LoginOnlyRegistered' /\ answer' \in [Threads -> Answer]
        BY <1>4, <1>8, StayRegistered DEF IInv, TypeOK
    <2> QED BY <1>5, <1>6, <2>7, <2>8 DEF IInv, TypeOK
<1> QED BY <1>7, <1>8 DEF RegisterFind

\* The registration that a thread is handling.
LEMMA UnderWay ==
    ASSUME IInv, NEW t \in Threads, req[t] # None
    PROVE  /\ req[t] \in Registration
           /\ req[t].email \in Emails /\ req[t].password \in Passwords /\ req[t].hashed \in Hashed
           /\ req[t].hashed.digest = <<req[t].hashed.salt, req[t].password>>
<1>1. req[t] \in Registration
    BY DEF IInv, TypeOK
<1>2. req[t].email \in Emails /\ req[t].password \in Passwords /\ req[t].hashed \in Hashed
    BY <1>1 DEF Registration
<1> QED BY <1>1, <1>2 DEF IInv, HashesOwn

\* A registration that leaves, with what it saved noted in the history.
LEMMA LeaveInv ==
    ASSUME IInv, NEW t \in Threads, req' = [req EXCEPT ![t] = None],
           confirmed \subseteq confirmed', unanswered \subseteq unanswered',
           \A m, p : Answering(t, m, p) => <<m, p>> \in confirmed' \cup unanswered'
    PROVE  /\ req' \in [Threads -> Registration \cup {None}] /\ HashesOwn'
           /\ \A m, p : Registered(m, p) => Registered(m, p)'
<1>1. req \in [Threads -> Registration \cup {None}]
    BY DEF IInv, TypeOK
<1>2. \A u \in Threads \ {t} : req'[u] = req[u]
    BY <1>1
<1>3. req' \in [Threads -> Registration \cup {None}] /\ HashesOwn'
    BY <1>1 DEF IInv, HashesOwn
<1>4. ASSUME NEW m, NEW p, Registered(m, p) PROVE Registered(m, p)'
    <2>1. CASE <<m, p>> \in confirmed \cup unanswered
        BY <2>1 DEF Registered
    <2>2. ASSUME NEW u \in Threads, Answering(u, m, p) PROVE Registered(m, p)'
        <3>1. CASE u = t
            BY <2>2, <3>1 DEF Registered
        <3>2. CASE u # t
            BY <1>2, <2>2, <3>2 DEF Registered, Answering
        <3> QED BY <3>1, <3>2
    <2> QED BY <1>4, <2>1, <2>2 DEF Registered
<1> QED BY <1>3, <1>4

\* RegisterSave
LEMMA SaveInv ==
    ASSUME IInv, NEW t \in Threads, RegisterSave(t)
    PROVE  IInv'
<1>1. PICK r : r = req[t]
    OBVIOUS
<1>2. r # None /\ ~r.saved /\ UNCHANGED <<confirmed, unanswered>>
    BY <1>1 DEF RegisterSave
<1>3. /\ r \in Registration /\ r.email \in Emails /\ r.password \in Passwords /\ r.hashed \in Hashed
      /\ r.hashed.digest = <<r.hashed.salt, r.password>>
    BY <1>1, <1>2, UnderWay
<1>4. req \in [Threads -> Registration \cup {None}] /\ accounts \in [Emails -> Hashed \cup {None}]
    BY DEF IInv, TypeOK
<1>5. confirmed' \subseteq Emails \X Passwords /\ unanswered' \subseteq Emails \X Passwords
    BY <1>2 DEF IInv, TypeOK
<1>6. CASE /\ accounts' = [accounts EXCEPT ![r.email] = r.hashed]
           /\ req' = [req EXCEPT ![t].saved = TRUE]
           /\ UNCHANGED answer
    <2>1. PICK s : s = [r EXCEPT !.saved = TRUE]
        OBVIOUS
    <2>2. /\ s \in Registration /\ s.saved /\ s.email = r.email /\ s.password = r.password
          /\ s.hashed = r.hashed
        BY <1>3, <2>1 DEF Registration
    <2>3. s # None
        BY <2>2, NoneAssumption DEF Registration, Hashed
    <2>4. req'[t] = s /\ \A u \in Threads \ {t} : req'[u] = req[u]
        BY <1>1, <1>4, <1>6, <2>1
    <2>5. req' \in [Threads -> Registration \cup {None}]
        BY <1>1, <1>4, <1>6, <2>1, <2>2
    <2>6. HashesOwn'
        BY <1>3, <2>2, <2>4 DEF IInv, HashesOwn
    <2>7. ASSUME NEW m, NEW p, Registered(m, p) PROVE Registered(m, p)'
        <3>1. CASE <<m, p>> \in confirmed \cup unanswered
            BY <1>2, <3>1 DEF Registered
        <3>2. ASSUME NEW u \in Threads, Answering(u, m, p) PROVE Registered(m, p)'
            <4>1. u # t
                BY <1>1, <1>2, <3>2 DEF Answering
            <4> QED BY <2>4, <3>2, <4>1 DEF Registered, Answering
        <3> QED BY <2>7, <3>1, <3>2 DEF Registered
    <2>8. answer' \in [Threads -> Answer] /\ LoginOnlyRegistered'
        BY <1>6, <2>7, StayRegistered DEF IInv, TypeOK
    <2>9. accounts' \in [Emails -> Hashed \cup {None}]
        BY <1>3, <1>4, <1>6
    <2>10. Registered(r.email, r.password)'
        BY <2>2, <2>3, <2>4 DEF Registered, Answering
    <2>11. ASSUME NEW m \in Emails, accounts'[m] # None
           PROVE  /\ accounts'[m].digest[1] = accounts'[m].salt
                  /\ Registered(m, accounts[m].digest[2])'
        <3>1. CASE m = r.email
            <4>1. accounts'[m] = r.hashed
                BY <1>4, <1>6, <3>1
            <4> QED BY <1>3, <2>10, <3>1, <4>1
        <3>2. CASE m # r.email
            <4>1. accounts'[m] = accounts[m]
                BY <1>4, <1>6, <3>2
            <4> QED BY <2>7, <2>11, <4>1 DEF IInv, StoredRegistered
        <3> QED BY <3>1, <3>2
    <2>12. StoredRegistered'
        BY <2>11 DEF StoredRegistered
    <2> QED BY <1>5, <2>5, <2>6, <2>8, <2>9, <2>12 DEF IInv, TypeOK
<1>7. CASE /\ Reply(t, "error", r.email, r.password) /\ UNCHANGED accounts
           /\ req' = [req EXCEPT ![t] = None]
    <2>1. \A m, p : ~Answering(t, m, p)
        BY <1>1, <1>2 DEF Answering
    <2>2. /\ req' \in [Threads -> Registration \cup {None}] /\ HashesOwn'
          /\ \A m, p : Registered(m, p) => Registered(m, p)'
        BY <1>2, <1>7, <2>1, LeaveInv
    <2>3. answer' \in [Threads -> Answer] /\ LoginOnlyRegistered'
        BY <1>3, <1>7, <2>2, ReplyInv DEF Status
    <2>4. StoredRegistered' /\ accounts' \in [Emails -> Hashed \cup {None}]
        BY <1>4, <1>7, <2>2, StayRegistered DEF IInv
    <2> QED BY <1>5, <2>2, <2>3, <2>4 DEF IInv, TypeOK
<1> QED BY <1>1, <1>6, <1>7 DEF RegisterSave

\* RegisterRespond, and a thread that dies
LEMMA EndInv ==
    ASSUME IInv, NEW t \in Threads, RegisterRespond(t) \/ Crash(t)
    PROVE  IInv'
<1>1. req[t] # None /\ req' = [req EXCEPT ![t] = None] /\ UNCHANGED accounts
    BY DEF RegisterRespond, Crash
<1>2. req[t].email \in Emails /\ req[t].password \in Passwords
    BY <1>1, UnderWay
<1>3. confirmed \subseteq confirmed' /\ unanswered \subseteq unanswered'
    BY DEF RegisterRespond, Crash
<1>4. confirmed' \subseteq Emails \X Passwords /\ unanswered' \subseteq Emails \X Passwords
    BY <1>2 DEF RegisterRespond, Crash, IInv, TypeOK
<1>5. \A m, p : Answering(t, m, p) => <<m, p>> \in confirmed' \cup unanswered'
    BY DEF RegisterRespond, Crash, Answering
<1>6. /\ req' \in [Threads -> Registration \cup {None}] /\ HashesOwn'
      /\ \A m, p : Registered(m, p) => Registered(m, p)'
    BY <1>1, <1>3, <1>5, LeaveInv
<1>7. StoredRegistered' /\ accounts' \in [Emails -> Hashed \cup {None}]
    BY <1>1, <1>6, StayRegistered DEF IInv, TypeOK
<1>8. answer' \in [Threads -> Answer] /\ LoginOnlyRegistered'
    <2>1. CASE RegisterRespond(t)
        <3>1. Reply(t, "registered", req[t].email, req[t].password)
            BY <2>1 DEF RegisterRespond
        <3> QED BY <1>2, <1>6, <3>1, ReplyInv DEF Status
    <2>2. CASE Crash(t)
        BY <1>6, <2>2, StayRegistered DEF Crash, IInv, TypeOK
    <2> QED BY <2>1, <2>2
<1> QED BY <1>4, <1>6, <1>7, <1>8 DEF IInv, TypeOK

\* LoginCheck
LEMMA LoginInv ==
    ASSUME IInv, NEW t \in Threads, NEW email \in Emails \cup {Blank},
           NEW password \in Passwords \cup {Blank}, LoginCheck(t, email, password)
    PROVE  IInv'
<1>1. UNCHANGED <<accounts, req, confirmed, unanswered>>
    BY DEF LoginCheck
<1>2. \A m, p : Registered(m, p) <=> Registered(m, p)'
    BY <1>1 DEF Registered, Answering
<1>3. /\ StoredRegistered' /\ HashesOwn' /\ accounts' \in [Emails -> Hashed \cup {None}]
      /\ req' \in [Threads -> Registration \cup {None}] /\ confirmed' \subseteq Emails \X Passwords
      /\ unanswered' \subseteq Emails \X Passwords
    BY <1>1, <1>2, StayRegistered DEF IInv, TypeOK, HashesOwn
<1>4. CASE Reply(t, "denied", email, password)
    <2>1. answer' \in [Threads -> Answer] /\ LoginOnlyRegistered'
        BY <1>2, <1>4, ReplyInv DEF Status
    <2> QED BY <1>3, <2>1 DEF IInv, TypeOK
<1>5. CASE /\ email # Blank /\ password # Blank
           /\ accounts[email] # None
           /\ CheckPassword(accounts[email], password)
           /\ Reply(t, "accepted", email, password)
    <2>1. email \in Emails /\ password \in Passwords
        BY <1>5
    <2>2. Registered(email, password)'
        <3>1. accounts[email].digest[2] = password
            BY <1>5 DEF CheckPassword
        <3>2. Registered(email, accounts[email].digest[2])
            BY <1>5, <2>1 DEF IInv, StoredRegistered
        <3> QED BY <1>2, <3>1, <3>2
    <2>3. answer' = [answer EXCEPT ![t] = [status |-> "accepted", email |-> email, password |-> password]]
        BY <1>5 DEF Reply
    <2>4. [status |-> "accepted", email |-> email, password |-> password] \in Answer
        BY <2>1 DEF Answer, Status
    <2>5. answer' \in [Threads -> Answer]
        BY <2>3, <2>4 DEF IInv, TypeOK
    <2>6. ASSUME NEW u \in Threads, answer'[u].status = "accepted"
          PROVE  Registered(answer[u].email, answer[u].password)'
        <3>1. CASE u = t
            BY <2>2, <2>3, <3>1 DEF IInv, TypeOK
        <3>2. CASE u # t
            <4>1. answer'[u] = answer[u]
                BY <2>3, <3>2 DEF IInv, TypeOK
            <4>2. Registered(answer[u].email, answer[u].password)
                BY <2>6, <4>1 DEF IInv, LoginOnlyRegistered, Registered
            <4> QED BY <1>2, <4>1, <4>2
        <3> QED BY <3>1, <3>2
    <2>7. LoginOnlyRegistered'
        BY <2>6 DEF LoginOnlyRegistered, Registered
    <2> QED BY <1>3, <2>5, <2>7 DEF IInv, TypeOK
<1> QED BY <1>4, <1>5 DEF LoginCheck

\* Every step keeps the invariant.
LEMMA NextInv == IInv /\ [Next]_vars => IInv'
<1> SUFFICES ASSUME IInv, [Next]_vars PROVE IInv'
    OBVIOUS
<1>1. CASE UNCHANGED vars
    <2>1. \A m, p : Registered(m, p) <=> Registered(m, p)'
        BY <1>1 DEF vars, Registered, Answering
    <2>2. StoredRegistered' /\ LoginOnlyRegistered'
        BY <1>1, <2>1, StayRegistered DEF vars, IInv
    <2> QED BY <1>1, <2>2 DEF vars, IInv, TypeOK, HashesOwn
<1>2. CASE Next
    BY <1>2, FindInv, SaveInv, EndInv, LoginInv DEF Next
<1> QED BY <1>1, <1>2

\* Accounts is type correct: no account has a blank address or password.
THEOREM TypeCorrect == Spec => []TypeOK
<1>1. IInv => TypeOK
    BY DEF IInv
<1> QED BY <1>1, InitInv, NextInv, PTL DEF Spec

\* LoginView accepts only credentials that were registered, confirmed unless
\* the thread that saved them died before it answered.
THEOREM OnlyRegistered == Spec => []LoginOnlyRegistered
<1>1. IInv => LoginOnlyRegistered
    BY DEF IInv
<1> QED BY <1>1, InitInv, NextInv, PTL DEF Spec

-----------------------------------------------------------------------------

\* A step changes no settled account, and lets no registration of its address
\* get past the lookup of RegisterView.
LEMMA SettledStep ==
    ASSUME IInv, [Next]_vars, NEW m \in Emails, Settled(m)
    PROVE  accounts'[m] = accounts[m] /\ Settled(m)'
<1>1. CASE UNCHANGED vars
    BY <1>1 DEF vars, Settled
<1>2. ASSUME NEW t \in Threads, NEW email \in Emails \cup {Blank},
             NEW password \in Passwords \cup {Blank}, RegisterFind(t, email, password)
      PROVE  accounts'[m] = accounts[m] /\ Settled(m)'
    <2>1. accounts' = accounts
        BY <1>2 DEF RegisterFind
    <2>2. CASE UNCHANGED req
        BY <2>1, <2>2 DEF Settled
    <2>3. ASSUME NEW salt \in Salts, accounts[email] = None,
                 req' = [req EXCEPT ![t] = Unsaved(email, password, salt)]
          PROVE  Settled(m)'
        <3>1. email # m
            BY <2>3 DEF Settled
        <3>2. Unsaved(email, password, salt).email = email
            BY DEF Unsaved
        <3>3. \A u \in Threads : req'[u] # None /\ ~req'[u].saved => req'[u].email # m
            BY <2>3, <3>1, <3>2 DEF Settled, IInv, TypeOK
        <3> QED BY <2>1, <3>3 DEF Settled
    <2> QED BY <1>2, <2>1, <2>2, <2>3 DEF RegisterFind
<1>3. ASSUME NEW t \in Threads, RegisterSave(t) \/ RegisterRespond(t) \/ Crash(t)
      PROVE  accounts'[m] = accounts[m] /\ Settled(m)'
    <2>1. req[t] # None /\ (~req[t].saved => req[t].email # m)
        BY <1>3 DEF RegisterSave, RegisterRespond, Crash, Settled
    <2>2. accounts'[m] = accounts[m]
        BY <1>3, <2>1 DEF RegisterSave, RegisterRespond, Crash, IInv, TypeOK
    <2>3. req \in [Threads -> Registration \cup {None}]
        BY DEF IInv, TypeOK
    <2>4. \A u \in Threads \ {t} : req'[u] = req[u]
        BY <1>3, <2>3 DEF RegisterSave, RegisterRespond, Crash
    <2>5. req'[t] # None => req'[t].saved
        <3>1. CASE req' = [req EXCEPT ![t] = None]
            BY <2>3, <3>1
        <3>2. CASE req' = [req EXCEPT ![t].saved = TRUE]
            <4>1. req[t] \in Registration
                BY <2>1, <2>3
            <4>2. [req[t] EXCEPT !.saved = TRUE].saved
                BY <4>1 DEF Registration
            <4> QED BY <2>3, <3>2, <4>2
        <3> QED BY <1>3, <3>1, <3>2 DEF RegisterSave, RegisterRespond, Crash
    <2> QED BY <2>2, <2>4, <2>5 DEF Settled
<1>4. ASSUME NEW t \in Threads, NEW email \in Emails \cup {Blank},
             NEW password \in Passwords \cup {Blank}, LoginCheck(t, email, password)
      PROVE  accounts'[m] = accounts[m] /\ Settled(m)'
    BY <1>4 DEF LoginCheck, Settled
<1> QED BY <1>1, <1>2, <1>3, <1>4 DEF Next

\* Once the registrations that raced for an address are over, its account
\* keeps its password.
THEOREM AccountsKept == Spec => SettledAccountKept
<1>1. IInv /\ [Next]_vars
        => [\A m \in Emails : Settled(m) => accounts'[m] = accounts[m] /\ Settled(m)']_vars
    BY SettledStep
<1>2. Spec => []IInv
    BY InitInv, NextInv, PTL DEF Spec
<1> QED BY <1>1, <1>2, PTL DEF Spec, SettledAccountKept

=============================================================================
