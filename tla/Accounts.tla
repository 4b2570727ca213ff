------------------------------ MODULE Accounts ------------------------------
(***************************************************************************)
(* Registration and login: auth/routes.py over the table users.            *)
(*                                                                         *)
(* Hashing a password is slow on purpose: other requests run meanwhile.    *)
(* Tokens carry an identifier and are verified by their signature alone:   *)
(* no state of the server is about them.                                   *)
(***************************************************************************)

CONSTANTS
  Spelling,       \* addresses as people type them
  Normal,         \* the address each of them is stored as: stripped, lower case
  Password,
  Clients         \* requests under way together

ASSUME AccountsAssumption == Spelling = DOMAIN Normal

VARIABLES
  users,          \* table users: the accounts, each an address and a password
  authPc,         \* what each request does next
  form,           \* what it was sent
  welcomed        \* history: the forms that were answered 201

accountVars == <<users, authPc, form, welcomed>>

Form == [spelling : Spelling, password : Password]

Account == [email : {Normal[s] : s \in Spelling}, password : Password]

AccountsTypeOK ==
  /\ users \subseteq Account
  /\ authPc \in [Clients -> {"idle", "hashing"}]
  /\ form \in [Clients -> Form]
  /\ welcomed \subseteq Form

AccountsInit ==
  /\ users = {} /\ welcomed = {}
  /\ authPc = [c \in Clients |-> "idle"]
  /\ \E f \in Form : form = [c \in Clients |-> f]

AddressOf(f) == Normal[f.spelling]

Taken(email) == \E u \in users : u.email = email

NewAccount(f) == [email |-> AddressOf(f), password |-> f.password]

-----------------------------------------------------------------------------

\* register: validation, then the hash.
Register(c, f) ==
  /\ authPc[c] = "idle"
  /\ authPc' = [authPc EXCEPT ![c] = "hashing"]
  /\ form' = [form EXCEPT ![c] = f]
  /\ UNCHANGED <<users, welcomed>>

\* Mutation: ON CONFLICT (email) DO UPDATE SET password_hash.
InsertOrReplace(c) ==
  /\ authPc[c] = "hashing"
  /\ authPc' = [authPc EXCEPT ![c] = "idle"]
  /\ users' = {u \in users : u.email # AddressOf(form[c])} \cup {NewAccount(form[c])}
  /\ welcomed' = welcomed \cup {form[c]}
  /\ UNCHANGED form

\* The INSERT under the unique constraint: 201, or 409 when the address is taken.
InsertUser(c) ==
  /\ authPc[c] = "hashing"
  /\ authPc' = [authPc EXCEPT ![c] = "idle"]
  /\ IF Taken(AddressOf(form[c]))
     THEN UNCHANGED <<users, welcomed>>
     ELSE /\ users' = users \cup {NewAccount(form[c])}
          /\ welcomed' = welcomed \cup {form[c]}
  /\ UNCHANGED form

\* login: the row of the address, and whether the password is its own.
LogsInAs(f) == {u \in users : u.email = AddressOf(f) /\ u.password = f.password}

AccountsNext ==
  \E c \in Clients : InsertUser(c) \/ \E f \in Form : Register(c, f)

AccountsSpec == AccountsInit /\ [][AccountsNext]_accountVars

-----------------------------------------------------------------------------

\* Who was told 201 owns an account: it can log in with any spelling of its address
\* and its own password, and nobody can with another password, however many
\* registrations ran together (routes.py, register: "due registrazioni simultanee non
\* possono passare entrambe").
RegistrantsOwnTheirAccount ==
  \A f \in welcomed, s \in Spelling, p \in Password :
    Normal[s] = AddressOf(f) =>
      (LogsInAs([spelling |-> s, password |-> p]) # {} <=> p = f.password)

=============================================================================
