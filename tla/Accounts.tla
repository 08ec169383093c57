------------------------------- MODULE Accounts -------------------------------
(***************************************************************************)
(* How accounts come to be: by registration, by an administrator, and by   *)
(* the server itself when it starts (auth_service.go 163-213, 410-441).    *)
(* The users table is shared: while one server starts, another may still   *)
(* be serving, so requests are answered at any time.                       *)
(*                                                                         *)
(* A name stands for what the table's collation holds for one name; a      *)
(* request is well formed or not (ValidateUsername, the length of password *)
(* and nickname).                                                          *)
(***************************************************************************)
EXTENDS Integers

CONSTANTS
  Names,      \* user names
  Creations,  \* requests that create an account
  NoAccount,
  MaxBoots    \* bound: starts of a server

ASSUME AccountsAssumption ==
  /\ Names # {}
  /\ NoAccount \notin Creations
  /\ MaxBoots \in Nat

VARIABLES
  accounts,       \* users: the request, or the start, whose password a name has
  creation,       \* requests: where it is, and for which name
  boot,           \* bootstrapUser of the server that starts, and for which name
  boots,          \* starts so far
  allowRegister   \* auth.allow_register

accountVars == <<accounts, creation, boot, boots, allowRegister>>

(* register checks what it is given, before it comes to the table. *)
Checked(r, n, fits) ==
  /\ creation[r].pc = "idle"
  /\ creation' = [creation EXCEPT ![r] =
       [pc |-> IF fits THEN "inserting" ELSE "refused", name |-> n]]

(* POST /auth/register *)
RegisterAccount(r, n, valid) ==
  /\ Checked(r, n, allowRegister /\ valid)
  /\ UNCHANGED <<accounts, boot, boots, allowRegister>>

(* POST /server-admin/users does not ask whether registration is open.     *)
AdminCreateUser(r, n, valid) ==
  /\ Checked(r, n, valid)
  /\ UNCHANGED <<accounts, boot, boots, allowRegister>>

Inserted_Upsert(n, by) == accounts' = [accounts EXCEPT ![n] = by]

(* INSERT: the unique key refuses a name that is taken. *)
Inserted(n, by) ==
  /\ accounts[n] = NoAccount
  /\ accounts' = [accounts EXCEPT ![n] = by]

Answered(r, label) == creation' = [creation EXCEPT ![r].pc = label]

(* CreateUser; a failure may come after the row was inserted. *)
CreateUser(r) ==
  /\ creation[r].pc = "inserting"
  /\ \/ Inserted(creation[r].name, r) /\ Answered(r, "created")
     \/ /\ accounts[creation[r].name] # NoAccount
        /\ Answered(r, "exists")
        /\ UNCHANGED accounts
     \/ /\ Answered(r, "failed")
        /\ Inserted(creation[r].name, r) \/ UNCHANGED accounts
  /\ UNCHANGED <<boot, boots, allowRegister>>

(* A server starts, with the bootstrap user and the registration switch    *)
(* that its configuration has now.                                         *)
StartServer(n, allow) ==
  /\ boot.pc = "up"
  /\ boots < MaxBoots
  /\ boots' = boots + 1
  /\ boot' = [pc |-> "looking", name |-> n]
  /\ allowRegister' = allow
  /\ UNCHANGED <<accounts, creation>>

(* FindUserByName: an account that exists is left alone; an error, too,    *)
(* ends it.                                                                *)
BootFind ==
  /\ boot.pc = "looking"
  /\ \/ boot' = [boot EXCEPT !.pc = IF accounts[boot.name] = NoAccount THEN "inserting" ELSE "up"]
     \/ boot' = [boot EXCEPT !.pc = "up"]
  /\ UNCHANGED <<accounts, creation, boots, allowRegister>>

(* CreateUser; that the name is taken by now is only logged. *)
BootCreate ==
  /\ boot.pc = "inserting"
  /\ boot' = [boot EXCEPT !.pc = "up"]
  /\ Inserted(boot.name, boots) \/ UNCHANGED accounts
  /\ UNCHANGED <<creation, boots, allowRegister>>

AccountsInit ==
  /\ accounts = [n \in Names |-> NoAccount]
  /\ creation = [r \in Creations |-> [pc |-> "idle", name |-> CHOOSE n \in Names : TRUE]]
  /\ boot = [pc |-> "up", name |-> CHOOSE n \in Names : TRUE]
  /\ boots = 0
  /\ allowRegister = FALSE

AccountsNext ==
  \/ \E r \in Creations :
       \/ CreateUser(r)
       \/ \E n \in Names, valid \in BOOLEAN :
            RegisterAccount(r, n, valid) \/ AdminCreateUser(r, n, valid)
  \/ \E n \in Names, allow \in BOOLEAN : StartServer(n, allow)
  \/ BootFind \/ BootCreate

AccountsSpec == AccountsInit /\ [][AccountsNext]_accountVars

-----------------------------------------------------------------------------
(* Correctness. *)

(* Who is told that an account was created for them has it, with their     *)
(* password: no other request for the name, and no later start of a server *)
(* with another bootstrap password, takes it over, although the start      *)
(* looks first and creates later (auth_service.go:410-436).                *)
CreatedIsKept ==
  \A r \in Creations : creation[r].pc = "created" => accounts[creation[r].name] = r
=============================================================================
