------------------------------ MODULE Accounts ------------------------------
(***************************************************************************)
(* User accounts: RegisterView and the credential check of LoginView in    *)
(* users/views.py, on the collection of users.models.User, whose primary   *)
(* key is the e-mail address.  RegisterView looks the address up and saves *)
(* the account in two calls of the database, and answers afterwards;       *)
(* save() is an upsert.                                                    *)
(***************************************************************************)
CONSTANTS
    Emails,      \* what is given as an e-mail address
    Malformed,   \* the ones among them that are no addresses
    Passwords,   \* passwords
    Salts,       \* what uuid.uuid4().hex returns
    Threads,     \* server threads
    None,        \* no document
    Blank,       \* a field that is missing, empty or white space; a blank name
                 \* is refused like a blank address
    Faults       \* subset of {"duplicate", "crash"}

ASSUME NoneAssumption ==
    None \notin [email : Emails, password : Passwords,
                hashed : [digest : Salts \X Passwords, salt : Salts], saved : BOOLEAN]

VARIABLES
    accounts,    \* accounts[m]: the stored password of the account of m, or None
    req,         \* req[t]: the registration thread t is handling, or None
    answer,      \* answer[t]: the last answer of thread t
    confirmed,   \* history: the credentials whose registration was answered 200
    unanswered   \* history: the credentials that were saved by a thread that died
                 \* before it answered, or whose answer was lost

vars == <<accounts, req, answer, confirmed, unanswered>>

\* hash_password: digest + ':' + salt
HashPassword(password, salt) == [digest |-> <<salt, password>>, salt |-> salt]

\* Mutation: the password is not part of the comparison.
CheckSaltOnly(hashed, password) == hashed.digest[1] = hashed.salt

\* check_password: hashes the password with the salt after the ':'
CheckPassword(hashed, password) == hashed.digest = <<hashed.salt, password>>

Hashed == [digest : Salts \X Passwords, salt : Salts]

\* A registration that found its address free; saved is whether save() is done.
Registration == [email : Emails, password : Passwords, hashed : Hashed, saved : BOOLEAN]
Unsaved(email, password, salt) ==
    [email |-> email, password |-> password, hashed |-> HashPassword(password, salt),
     saved |-> FALSE]

Status == {"none", "registered", "refused", "error", "accepted", "denied"}
Answer == [status : Status, email : Emails \cup {None, Blank}, password : Passwords \cup {None, Blank}]

Reply(t, status, email, password) ==
    answer' = [answer EXCEPT ![t] = [status |-> status, email |-> email, password |-> password]]

Init ==
    /\ accounts = [m \in Emails |-> None]
    /\ req = [t \in Threads |-> None]
    /\ answer = [t \in Threads |-> [status |-> "none", email |-> None, password |-> None]]
    /\ confirmed = {}
    /\ unanswered = {}

\* Mutation: the password is not examined.
RegisterFindBlank(t, email, password) ==
    /\ req[t] = None
    /\ email # Blank
    /\ accounts[email] = None
    /\ \E salt \in Salts : req' = [req EXCEPT ![t] = Unsaved(email, password, salt)]
    /\ UNCHANGED <<accounts, answer, confirmed, unanswered>>

\* Mutation: the address is not looked up.
RegisterFindAlways(t, email, password) ==
    /\ req[t] = None
    /\ email # Blank /\ password # Blank
    /\ \E salt \in Salts : req' = [req EXCEPT ![t] = Unsaved(email, password, salt)]
    /\ UNCHANGED <<accounts, answer, confirmed, unanswered>>

\* RegisterView.post up to User.objects.raw({"_id": email}).first().  It
\* answers 406 for a blank field and for an address that has an account.
RegisterFind(t, email, password) ==
    /\ req[t] = None
    /\ IF email = Blank \/ password = Blank
       THEN Reply(t, "refused", email, password) /\ UNCHANGED req
       ELSE IF accounts[email] # None
            THEN Reply(t, "refused", email, password) /\ UNCHANGED req
            ELSE /\ \E salt \in Salts : req' = [req EXCEPT ![t] = Unsaved(email, password, salt)]
                 /\ UNCHANGED answer
    /\ UNCHANGED <<accounts, confirmed, unanswered>>

\* usermodel.save(), which validates first: what is no e-mail address raises
\* ValidationError.  If another thread saved the same address since
\* RegisterFind, the upsert replaces its document, or the two upserts meet in
\* the server and this one raises DuplicateKeyError.
RegisterSave(t) ==
    LET r == req[t] IN
    /\ r # None
    /\ ~r.saved
    /\ \/ /\ r.email \notin Malformed
          /\ accounts' = [accounts EXCEPT ![r.email] = r.hashed]
          /\ req' = [req EXCEPT ![t].saved = TRUE]
          /\ UNCHANGED answer
       \/ /\ \/ r.email \in Malformed
             \/ "duplicate" \in Faults /\ accounts[r.email] # None
          /\ Reply(t, "error", r.email, r.password)
          /\ req' = [req EXCEPT ![t] = None]
          /\ UNCHANGED accounts
    /\ UNCHANGED <<confirmed, unanswered>>

\* return Response(final_data)
RegisterRespond(t) ==
    LET r == req[t] IN
    /\ r # None
    /\ r.saved
    /\ Reply(t, "registered", r.email, r.password)
    /\ confirmed' = confirmed \cup {<<r.email, r.password>>}
    /\ req' = [req EXCEPT ![t] = None]
    /\ UNCHANGED <<accounts, unanswered>>

\* The server process dies in a registration, or its answer is lost.
Crash(t) ==
    LET r == req[t] IN
    /\ "crash" \in Faults
    /\ r # None
    /\ unanswered' = IF r.saved THEN unanswered \cup {<<r.email, r.password>>} ELSE unanswered
    /\ req' = [req EXCEPT ![t] = None]
    /\ UNCHANGED <<accounts, answer, confirmed>>

\* LoginView.post up to check_password; from "accepted" on, Sessions goes on.
LoginCheck(t, email, password) ==
    /\ req[t] = None
    /\ IF \/ email = Blank \/ password = Blank
          \/ accounts[email] = None
          \/ ~CheckPassword(accounts[email], password)
       THEN Reply(t, "denied", email, password)
       ELSE Reply(t, "accepted", email, password)
    /\ UNCHANGED <<accounts, req, confirmed, unanswered>>

Next ==
    \E t \in Threads :
        \/ \E email \in Emails \cup {Blank}, password \in Passwords \cup {Blank} :
              RegisterFind(t, email, password) \/ LoginCheck(t, email, password)
        \/ RegisterSave(t) \/ RegisterRespond(t) \/ Crash(t)

Spec == Init /\ [][Next]_vars

-----------------------------------------------------------------------------
(* Properties *)

\* The variables have the types the comments at their declaration give: in
\* particular no account has a blank address or password.
TypeOK ==
    /\ accounts \in [Emails -> Hashed \cup {None}]
    /\ req \in [Threads -> Registration \cup {None}]
    /\ answer \in [Threads -> Answer]
    /\ confirmed \subseteq Emails \X Passwords
    /\ unanswered \subseteq Emails \X Passwords

\* No registration that found the address free is still to be saved.
Settled(m) ==
    accounts[m] # None
        /\ \A t \in Threads : req[t] # None /\ ~req[t].saved => req[t].email # m

\* Once the registrations that ran at the same time are over, an account keeps
\* its password for good: RegisterView lets no other registration of the
\* address get as far as save() from then on.
SettledAccountKept ==
    [][\A m \in Emails : Settled(m) => accounts'[m] = accounts[m] /\ Settled(m)']_vars

\* A thread has saved the credentials and is about to answer.
Answering(t, email, password) ==
    req[t] # None /\ req[t].saved /\ req[t].email = email /\ req[t].password = password

\* LoginView accepts only credentials that RegisterView has confirmed or is
\* about to confirm, whichever of several concurrent registrations of the
\* address came last; but for the one case in which the client cannot know: its
\* registration was saved and the answer never came.
LoginOnlyRegistered ==
    \A t \in Threads :
        answer[t].status = "accepted" =>
            \/ <<answer[t].email, answer[t].password>> \in confirmed \cup unanswered
            \/ \E u \in Threads : Answering(u, answer[t].email, answer[t].password)

\* Whoever was told that the registration succeeded can log in with the
\* password, because an address that is present is not registered again.
ConfirmedCanLogin ==
    \A c \in confirmed :
        accounts[c[1]] # None /\ CheckPassword(accounts[c[1]], c[2])

=============================================================================
