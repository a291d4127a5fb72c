------------------------------ MODULE PaymentKeys ------------------------------
(***************************************************************************)
(* The directory of payment keys (routes/protected_messages.rs over        *)
(* repositories/protected_message_repo.rs): an account publishes a pair of *)
(* public keys per wallet environment, and a sender looks the pair up to   *)
(* lock funds to the one and encrypt to the other.  PostgreSQL answers a   *)
(* lookup in one join; the memory store first asks the user repository for *)
(* the account and then reads its keys.                                    *)
(*                                                                         *)
(* A key is known by the publication it belongs to.                        *)
(***************************************************************************)
EXTENDS Naturals, Sequences

CONSTANTS
  Owners,         \* accounts
  Environments,   \* wallet environments
  Lookups,        \* lookups the server works on at the same time
  Publications    \* bound of the publications

ASSUME KeysAssumption == Publications \in Nat

VARIABLES
  keys,    \* user_payment_keys of either store: the stored pair, or NoKeys
  author,  \* ghost: the store, the account and the environment of a publication
  lookup   \* a lookup: what it asks for and what it shows

keysVars == <<keys, author, lookup>>

Rows == {"postgres", "memory"} \X Owners \X Environments
NoKeys == [p2pk |-> 0, transport |-> 0]
IdleLookup == [stage |-> "idle"]

KeysInit ==
  /\ keys = [k \in Rows |-> NoKeys]
  /\ author = <<>>
  /\ lookup = [l \in Lookups |-> IdleLookup]

-------------------------------------------------------------------------------
\* Mutant: the keys of every environment of the account are replaced.
PublishEverywhere(k) ==
  LET n == Len(author) + 1 IN
  /\ n <= Publications
  /\ author' = Append(author, k)
  /\ keys' = [r \in Rows |->
                IF r[1] = k[1] /\ r[2] = k[2] THEN [p2pk |-> n, transport |-> n] ELSE keys[r]]
  /\ UNCHANGED lookup

\* update_payment_keys_handler with two valid keys: the row of the account and the
\* environment is inserted or replaced.
Publish(k) ==
  LET n == Len(author) + 1 IN
  /\ n <= Publications
  /\ author' = Append(author, k)
  /\ keys' = [keys EXCEPT ![k] = [p2pk |-> n, transport |-> n]]
  /\ UNCHANGED lookup

\* get_payment_profile_handler has found the account behind the name.
FindOwner(l, k) ==
  /\ lookup[l] = IdleLookup
  /\ lookup' = [lookup EXCEPT ![l] = [stage |-> "found", row |-> k, since |-> keys[k].p2pk]]
  /\ UNCHANGED <<keys, author>>

\* The pair is read and shown; without one the answer is NotFound.
ShowKeys(l) ==
  /\ lookup[l].stage = "found"
  /\ LET pair == keys[lookup[l].row] IN
     lookup' = [lookup EXCEPT ![l] =
       IF pair = NoKeys THEN IdleLookup
       ELSE [stage |-> "shown", row |-> @.row, since |-> @.since,
             p2pk |-> pair.p2pk, transport |-> pair.transport]]
  /\ UNCHANGED <<keys, author>>

\* The client is done with the answer, or gone.
EndLookup(l) ==
  /\ lookup[l] # IdleLookup
  /\ lookup' = [lookup EXCEPT ![l] = IdleLookup]
  /\ UNCHANGED <<keys, author>>

\* What the stores of the next process hold: those in memory start empty.
KeysLeft == [k \in Rows |-> IF k[1] = "memory" THEN NoKeys ELSE keys[k]]

\* The requests of a process that works on store.
KeysStep(store) ==
  \E l \in Lookups, k \in {store} \X Owners \X Environments :
    Publish(k) \/ FindOwner(l, k) \/ ShowKeys(l) \/ EndLookup(l)

KeysTypeOK ==
  /\ keys \in [Rows -> [p2pk : 0..Publications, transport : 0..Publications]]
  /\ author \in Seq(Rows)
  /\ \A l \in Lookups : lookup[l].stage \in {"idle", "found", "shown"}

-------------------------------------------------------------------------------
\* Funds are locked to one key of a profile and its message is encrypted to the
\* other: a profile shows two keys of one publication, made for the account, the
\* environment and the store it was asked of, and none that was replaced before it
\* was asked, though publications go on while the lookup does.
ProfilesAreWhole ==
  \A l \in Lookups :
    lookup[l].stage = "shown" =>
      /\ lookup[l].p2pk = lookup[l].transport
      /\ author[lookup[l].p2pk] = lookup[l].row
      /\ lookup[l].p2pk >= lookup[l].since

-------------------------------------------------------------------------------
(***************************************************************************)
(* The inductive invariant behind the safety property.                     *)
(***************************************************************************)

\* What a lookup is.
LookupStates ==
  [stage : {"idle"}]
    \cup [stage : {"found"}, row : Rows, since : 0..Publications]
    \cup [stage : {"shown"}, row : Rows, since : 0..Publications, p2pk : 1..Publications,
          transport : 1..Publications]

\* The stored pair is that of one publication for its row.
PairsAreWhole ==
  \A k \in Rows :
    /\ keys[k].p2pk = keys[k].transport
    /\ keys[k] # NoKeys => keys[k].p2pk \in DOMAIN author /\ author[keys[k].p2pk] = k

\* No pair is older than a lookup under way has seen.
LookupsLookForward ==
  \A l \in Lookups :
    /\ lookup[l].stage = "found" => lookup[l].since <= keys[lookup[l].row].p2pk
    /\ lookup[l].stage = "shown" => lookup[l].p2pk \in DOMAIN author

KeysIInv ==
  /\ KeysTypeOK /\ lookup \in [Lookups -> LookupStates] /\ Len(author) <= Publications
  /\ PairsAreWhole /\ LookupsLookForward /\ ProfilesAreWhole
==============================================================================
