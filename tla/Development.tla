------------------------------ MODULE Development ------------------------------
(***************************************************************************)
(* The process of the API (Startup) with the parts that need one: the mock *)
(* Lightning provider and the development escrow live in its memory, the   *)
(* payment keys in its database or in its memory, and the catalogue is     *)
(* served from constants.  A request is served by a serving process only,  *)
(* and a process that ends takes its requests and its memory along.        *)
(*                                                                         *)
(* The parts share nothing but the process.  A behaviour exercises one of  *)
(* them, chosen at the start, in every interleaving with the process.      *)
(***************************************************************************)
EXTENDS Startup, LightningMock, MockEscrow, SandboxMarkets, PaymentKeys

VARIABLE part  \* the part this behaviour exercises

vars == <<startupVars, lightningVars, escrowVars, sandboxVars, keysVars, now, part>>

Parts == {"lightning", "escrow", "sandbox", "keys"}

Init ==
  /\ StartupInit /\ LightningInit /\ EscrowInit /\ SandboxInit /\ KeysInit
  /\ now = 0
  /\ part \in Parts

-------------------------------------------------------------------------------
\* A client of the process.
ServeLightning ==
  /\ part = "lightning" /\ process = "serving" /\ ~IsProduction
  /\ LightningNext
  /\ UNCHANGED <<startupVars, escrowVars, sandboxVars, keysVars, now, part>>

ServeEscrow ==
  /\ part = "escrow" /\ process = "serving"
  /\ EscrowNext
  /\ UNCHANGED <<startupVars, lightningVars, sandboxVars, keysVars, part>>

ServeSandbox ==
  /\ part = "sandbox" /\ process = "serving"
  /\ SandboxNext
  /\ UNCHANGED <<startupVars, lightningVars, escrowVars, keysVars, now, part>>

ServeKeys ==
  /\ part = "keys" /\ process = "serving"
  /\ pool => database
  /\ KeysStep(IF pool THEN "postgres" ELSE "memory")
  /\ UNCHANGED <<startupVars, lightningVars, escrowVars, sandboxVars, now, part>>

\* The process goes through main, or the database changes.
MainStep ==
  /\ StartupNext
  /\ UNCHANGED <<lightningVars, escrowVars, sandboxVars, keysVars, now, part>>

\* The process ends, with everything in its memory.
EndProcess ==
  /\ Stop
  /\ invoices' = 0 /\ balance' = InitialBalance /\ paying' = {}
  /\ payments' = 0 /\ dropped' = 0 /\ seen' = [balance |-> InitialBalance, spent |-> 0]
  /\ escrow' = [p \in Payments |-> NoEscrow]
  /\ settlements' = [p \in Payments |-> {}]
  /\ keys' = KeysLeft
  /\ lookup' = [l \in Lookups |-> IdleLookup]
  /\ UNCHANGED <<author, sandboxVars, now, part>>

Tick ==
  /\ part = "escrow" /\ EscrowTick
  /\ UNCHANGED <<startupVars, lightningVars, sandboxVars, keysVars, part>>

Next ==
  \/ MainStep \/ EndProcess \/ Tick
  \/ ServeLightning \/ ServeEscrow \/ ServeSandbox \/ ServeKeys

Spec == Init /\ [][Next]_vars

-------------------------------------------------------------------------------
\* Every variable has its type; the balance of the Lightning provider, a u64, is
\* never overdrawn.
TypeOK ==
  /\ StartupTypeOK /\ LightningTypeOK /\ EscrowTypeOK /\ SandboxTypeOK /\ KeysTypeOK
  /\ part \in Parts
==============================================================================
