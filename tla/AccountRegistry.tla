--------------------------- MODULE AccountRegistry ---------------------------
(***************************************************************************)
(* What UserManager, UserWriter and Identity promise of the accounts, with *)
(* no hashes, salts, wrapped keys or database sessions in sight: an        *)
(* account has a password and a recovery phrase, and only who shows one of *)
(* them gets a session or new ones; a phrase is never issued twice; what   *)
(* is deleted stays deleted.                                               *)
(***************************************************************************)
CONSTANTS Clients, Names, Passwords, Empty, Phrases, None

VARIABLES
  account,  \* each name's live account
  gone,     \* the names whose account was deleted
  issued,   \* the phrases ever drawn
  told,     \* the phrases returned to callers, per account
  who,      \* whose session each client has, or None
  entered,  \* the accounts that have had a session
  doing     \* what each client has begun and not yet been answered, or Idle

vars == <<account, gone, issued, told, who, entered, doing>>

NoAccount == [password |-> None, phrase |-> None]

Idle == [step |-> "idle"]

Init ==
  /\ account = [n \in Names |-> NoAccount]
  /\ gone = {}
  /\ issued = {}
  /\ told = [n \in Names |-> {}]
  /\ who = [c \in Clients |-> None]
  /\ entered = {}
  /\ doing = [c \in Clients |-> Idle]

Right(n, password) == account[n].password = password

Do(c, what) == doing' = [doing EXCEPT ![c] = what]

\* A phrase nobody has seen before.
Issue(phrase) == phrase \notin issued /\ issued' = issued \cup {phrase}

Enter(c, n) ==
  /\ who' = [who EXCEPT ![c] = n]
  /\ entered' = entered \cup {n}

\* The operation ends with its phrase in the hands of the caller.
Return(c) ==
  /\ told' = [told EXCEPT ![doing[c].name] = @ \cup {doing[c].phrase}]
  /\ Do(c, Idle)

----------------------------------------------------------------------------

\* A name is given once: neither a live account nor a deleted one has it.
Register(c, n, password, phrase) ==
  /\ doing[c] = Idle
  /\ password # Empty
  /\ account[n] = NoAccount /\ n \notin gone
  /\ Issue(phrase)
  /\ account' = [account EXCEPT ![n] = [password |-> password, phrase |-> phrase]]
  /\ Do(c, [step |-> "registered", name |-> n, password |-> password, phrase |-> phrase])
  /\ UNCHANGED <<gone, told, who, entered>>

\* A registration is answered, with a session if its password still is the
\* account's.
FirstLogin(c) ==
  /\ doing[c].step = "registered"
  /\ who[c] = None
  /\ IF Right(doing[c].name, doing[c].password) THEN Enter(c, doing[c].name)
                                                ELSE UNCHANGED <<who, entered>>
  /\ Return(c)
  /\ UNCHANGED <<account, gone, issued>>

Login(c, n, password) ==
  /\ doing[c] = Idle
  /\ who[c] = None
  /\ Right(n, password)
  /\ Enter(c, n)
  /\ UNCHANGED <<account, gone, issued, told, doing>>

\* Only a session that somebody has had can be restored.
Restore(c, n) ==
  /\ doing[c] = Idle
  /\ n \in entered
  /\ Enter(c, n)
  /\ UNCHANGED <<account, gone, issued, told, doing>>

Logout(c) ==
  /\ doing[c] = Idle
  /\ who[c] # None
  /\ who' = [who EXCEPT ![c] = None]
  /\ UNCHANGED <<account, gone, issued, told, entered, doing>>

\* The client shows the old password, once here and once in Grant.
AskChange(c, old, new) ==
  /\ doing[c] = Idle
  /\ old # Empty
  /\ who[c] # None
  /\ Right(who[c], old)
  /\ Do(c, [step |-> "asked", name |-> who[c], old |-> old, new |-> new])
  /\ UNCHANGED <<account, gone, issued, told, who, entered>>

Grant(c, phrase) ==
  /\ doing[c].step = "asked"
  /\ Right(doing[c].name, doing[c].old)
  /\ Issue(phrase)
  /\ Do(c, [step |-> "granted", name |-> doing[c].name, password |-> doing[c].new,
            phrase |-> phrase])
  /\ UNCHANGED <<account, gone, told, who, entered>>

\* The client shows the account's phrase, which somebody was told.
GrantReset(c, n, new, phrase) ==
  /\ doing[c] = Idle
  /\ account[n].phrase \in told[n]
  /\ Issue(phrase)
  /\ Do(c, [step |-> "granted", name |-> n, password |-> new, phrase |-> phrase])
  /\ UNCHANGED <<account, gone, told, who, entered>>

\* Password and phrase change in one step, and not those of a deleted account.
Change(c) ==
  /\ doing[c].step = "granted"
  /\ account' = [account EXCEPT ![doing[c].name] =
                   IF @ = NoAccount THEN NoAccount
                   ELSE [password |-> doing[c].password, phrase |-> doing[c].phrase]]
  /\ Do(c, [step |-> "changed", name |-> doing[c].name, phrase |-> doing[c].phrase])
  /\ UNCHANGED <<gone, issued, told, who, entered>>

Answer(c) ==
  /\ doing[c].step = "changed"
  /\ Return(c)
  /\ UNCHANGED <<account, gone, issued, who, entered>>

\* The client is told of a failure, or never hears an answer; when its process
\* ends its session does, too.
Abandon(c) ==
  /\ doing[c] # Idle
  /\ Do(c, Idle)
  /\ who' \in {who, [who EXCEPT ![c] = None]}
  /\ UNCHANGED <<account, gone, issued, told, entered>>

Delete(c) ==
  /\ doing[c] = Idle
  /\ who[c] # None /\ account[who[c]] # NoAccount
  /\ account' = [account EXCEPT ![who[c]] = NoAccount]
  /\ gone' = gone \cup {who[c]}
  /\ UNCHANGED <<issued, told, who, entered, doing>>

Next ==
  \E c \in Clients :
    \/ \E n \in Names, password \in Passwords :
         \/ \E phrase \in Phrases : Register(c, n, password, phrase)
         \/ Login(c, n, password)
    \/ \E n \in Names : Restore(c, n)
    \/ \E old, new \in Passwords : AskChange(c, old, new)
    \/ \E phrase \in Phrases :
         \/ Grant(c, phrase)
         \/ \E n \in Names, new \in Passwords : GrantReset(c, n, new, phrase)
    \/ FirstLogin(c)
    \/ Logout(c)
    \/ Change(c)
    \/ Answer(c)
    \/ Abandon(c)
    \/ Delete(c)

Spec == Init /\ [][Next]_vars
=============================================================================
