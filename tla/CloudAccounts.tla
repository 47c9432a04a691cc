---------------------------- MODULE CloudAccounts ----------------------------
(***************************************************************************)
(* Accounts and API keys of the cloud.  When a user has signed up, the     *)
(* auth library calls provisionAccount, which looks for the user's         *)
(* account, inserts one, and inserts its default project: three queries    *)
(* without a transaction, any of which may fail, in which case the call    *)
(* may come again.  An account has keys; a request is let in if its key is *)
(* live when it arrives.                                                   *)
(***************************************************************************)
EXTENDS Naturals, FiniteSets

CONSTANTS
  Key,         \* API keys
  MaxHooks     \* calls of provisionAccount considered

ASSUME HooksAssumption == MaxHooks \in Nat

VARIABLES
  accounts,    \* accounts of the user, in any order: how many
  defaults,    \* default projects of those accounts
  hook,        \* the call under way: "none", "look", "account", "project"
  hooks,       \* calls so far
  keys         \* "none", "live", "revoked"

accountVars == <<accounts, defaults, hook, hooks, keys>>

AccountsTypeOK ==
  /\ accounts \in 0 .. MaxHooks
  /\ defaults \in 0 .. MaxHooks
  /\ hook \in {"none", "look", "account", "project"}
  /\ hooks \in 0 .. MaxHooks
  /\ keys \in [Key -> {"none", "live", "revoked"}]

AccountsInit ==
  /\ accounts = 0
  /\ defaults = 0
  /\ hook = "none"
  /\ hooks = 0
  /\ keys = [k \in Key |-> "none"]

\* The hook of a new user, or a retry of a hook that failed.
Provision ==
  /\ hook = "none"
  /\ hooks < MaxHooks
  /\ hook' = "look"
  /\ hooks' = hooks + 1
  /\ UNCHANGED <<accounts, defaults, keys>>

\* Variant: an account counts when it has its project.
Settled == defaults > 0

\* getAccountForUser
Existing == accounts > 0

LookForAccount ==
  /\ hook = "look"
  /\ hook' = IF Existing THEN "none" ELSE "account"
  /\ UNCHANGED <<accounts, defaults, hooks, keys>>

InsertAccount ==
  /\ hook = "account"
  /\ accounts' = accounts + 1
  /\ hook' = "project"
  /\ UNCHANGED <<defaults, hooks, keys>>

InsertProject ==
  /\ hook = "project"
  /\ defaults' = defaults + 1
  /\ hook' = "none"
  /\ UNCHANGED <<accounts, hooks, keys>>

\* The query of this step fails.
ProvisionFails ==
  /\ hook # "none"
  /\ hook' = "none"
  /\ UNCHANGED <<accounts, defaults, hooks, keys>>

\* The dashboard makes keys for accounts that exist.
CreateKey(k) ==
  /\ keys[k] = "none"
  /\ accounts > 0
  /\ keys' = [keys EXCEPT ![k] = "live"]
  /\ UNCHANGED <<accounts, defaults, hook, hooks>>

\* revokeApiKey: once and for all; a second call changes nothing.
RevokeKey(k) ==
  /\ keys[k] = "live"
  /\ keys' = [keys EXCEPT ![k] = "revoked"]
  /\ UNCHANGED <<accounts, defaults, hook, hooks>>

AccountsNext ==
  \/ Provision \/ LookForAccount \/ InsertAccount \/ InsertProject
  \/ ProvisionFails
  \/ \E k \in Key : CreateKey(k) \/ RevokeKey(k)

\* "A transient retry after a partial failure never produces a second account
\* or default project": wherever a call failed, the next one makes no second.
RetryNeverDoubles == accounts <= 1 /\ defaults <= 1

\* The comment of provision-account.ts, "every account gets exactly one": when
\* no call is under way, the default project is there.  A call that fails
\* between its two inserts leaves an account that never gets one.
EveryAccountHasDefault == hook = "none" => defaults = accounts
=============================================================================
