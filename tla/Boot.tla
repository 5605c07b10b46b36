-------------------------------- MODULE Boot --------------------------------
(***************************************************************************)
(* `iaga serve` from process start to serving, for several replicas that   *)
(* share one database and one signing key file (cmd_serve in main.rs,      *)
(* try_build in receipts.rs, LocalDiskSigner in signer.rs).                 *)
(*                                                                         *)
(* Each replica walks through the steps of cmd_serve in the code's order;  *)
(* replicas interleave between steps and may be killed at any of them.      *)
(* The key file is created, written and checked in three steps.  Hydration  *)
(* and the bootstrap key are the subject of other modules.                  *)
(***************************************************************************)
EXTENDS Naturals, FiniteSets

CONSTANTS
    Replicas,
    Seeds,     \* Ed25519 seeds a replica may generate
    MaxStarts  \* bound on starts of all replicas

\* A seed is 32 bytes; the two other states of the file are not seeds.
ASSUME BootAssumption == MaxStarts \in Nat /\ {"absent", "short"} \cap Seeds = {}

VARIABLES
    config,    \* the operator's choices: config file, --policy, --seed-demo, fail-closed
    keyFile,   \* "absent", "short" (any wrong length) or the seed it holds
    step,      \* where each replica is in cmd_serve
    fresh,     \* the seed a replica has generated, as a set
    signer,    \* the seed its receipt logger signs with, as a set
    profiles,  \* what the policy store holds: "demo", "configured"
    ledger,    \* the seeds that have signed a receipt
    starts
bootVars == <<config, keyFile, step, fresh, signer, profiles, ledger, starts>>

BootSteps == {"off", "storage", "seed", "import", "overlay", "key", "create", "write",
              "check", "store", "gate", "bind", "serving"}
Configs == [file : {"absent", "unusable", "good"}, policy : {"none", "good", "bad"},
            demo : BOOLEAN, failClosed : BOOLEAN]

BootInit ==
    /\ config \in Configs
    /\ keyFile = "absent"
    /\ step = [p \in Replicas |-> "off"]
    /\ fresh = [p \in Replicas |-> {}]
    /\ signer = [p \in Replicas |-> {}]
    /\ profiles = {}
    /\ ledger = {}
    /\ starts = 0

At(p, s) == step[p] = s
On(p, s) == step' = [step EXCEPT ![p] = s]
Quiet == UNCHANGED <<config, profiles, ledger, starts>>

\* process::exit, a kill or a graceful shutdown: what is in memory is gone.
Leave(p) ==
    /\ On(p, "off")
    /\ fresh' = [fresh EXCEPT ![p] = {}]
    /\ signer' = [signer EXCEPT ![p] = {}]
    /\ UNCHANGED <<config, keyFile, profiles, ledger, starts>>

Start(p) ==
    /\ At(p, "off") /\ starts < MaxStarts
    /\ On(p, "storage")
    /\ starts' = starts + 1
    /\ UNCHANGED <<config, keyFile, fresh, signer, profiles, ledger>>

OpenStorage(p) ==
    /\ At(p, "storage")
    /\ \/ On(p, "seed") /\ UNCHANGED <<keyFile, fresh, signer>> /\ Quiet
       \/ Leave(p)

\* A listing that fails counts as an empty one; a failed upsert is a warning.
SeedDemoData(p) ==
    /\ At(p, "seed")
    /\ On(p, "import")
    /\ \E listed \in {profiles, {}} : profiles' \in
           IF config.demo /\ listed = {} THEN {profiles, profiles \cup {"demo"}} ELSE {profiles}
    /\ UNCHANGED <<config, keyFile, fresh, signer, ledger, starts>>

\* A file that is there and cannot be used is fatal, a failed upsert is not.
AutoImportConfig(p) ==
    /\ At(p, "import")
    /\ \/ config.file = "unusable" /\ Leave(p)
       \/ /\ config.file # "unusable"
          /\ On(p, "overlay")
          /\ profiles' \in {profiles} \cup
                 (IF config.file = "good" THEN {profiles \cup {"configured"}} ELSE {})
          /\ UNCHANGED <<config, keyFile, fresh, signer, ledger, starts>>

LoadDictumOverlay(p) ==
    /\ At(p, "overlay")
    /\ \/ config.policy = "bad" /\ Leave(p)
       \/ config.policy # "bad" /\ On(p, "key") /\ UNCHANGED <<keyFile, fresh, signer>> /\ Quiet

\* load_or_create looks at the path first.
LoadOrCreate(p) ==
    /\ At(p, "key")
    /\ \/ /\ keyFile = "absent"
          /\ \E k \in Seeds : fresh' = [fresh EXCEPT ![p] = {k}]
          /\ On(p, "create") /\ UNCHANGED <<keyFile, signer>>
       \/ /\ keyFile \in Seeds
          /\ signer' = [signer EXCEPT ![p] = {keyFile}]
          /\ On(p, "store") /\ UNCHANGED <<keyFile, fresh>>
       \/ /\ keyFile = "short"
          /\ On(p, "gate") /\ UNCHANGED <<keyFile, fresh, signer>>
       \* no path to a key, or the directory cannot be made
       \/ On(p, "gate") /\ UNCHANGED <<keyFile, fresh, signer>>
    /\ Quiet

\* Mutant: the open truncates what is there, as std::fs::write does.
CreateTruncating(p) ==
    /\ At(p, "create")
    /\ keyFile' = "short" /\ On(p, "write") /\ UNCHANGED <<fresh, signer>>
    /\ Quiet

\* create_new: whoever comes second gets an error, and no receipts.
CreateKeyFile(p) ==
    /\ At(p, "create")
    /\ \/ keyFile = "absent" /\ keyFile' = "short" /\ On(p, "write") /\ UNCHANGED <<fresh, signer>>
       \/ On(p, "gate") /\ fresh' = [fresh EXCEPT ![p] = {}] /\ UNCHANGED <<keyFile, signer>>
    /\ Quiet

WriteKeyFile(p) ==
    /\ At(p, "write")
    /\ \/ keyFile' \in fresh[p] /\ On(p, "check") /\ UNCHANGED <<fresh, signer>>
       \/ On(p, "gate") /\ fresh' = [fresh EXCEPT ![p] = {}] /\ UNCHANGED <<keyFile, signer>>
    /\ Quiet

\* A key made group or world accessible is refused; the file stays.
VerifyCreatedKeyPermissions(p) ==
    /\ At(p, "check")
    /\ \/ signer' = [signer EXCEPT ![p] = fresh[p]] /\ On(p, "store")
       \/ UNCHANGED signer /\ On(p, "gate")
    /\ fresh' = [fresh EXCEPT ![p] = {}]
    /\ UNCHANGED keyFile /\ Quiet

OpenReceiptStore(p) ==
    /\ At(p, "store")
    /\ On(p, "gate")
    /\ signer' \in {signer, [signer EXCEPT ![p] = {}]}
    /\ UNCHANGED <<keyFile, fresh>> /\ Quiet

RequireReceiptsOrExit(p) ==
    /\ At(p, "gate")
    /\ \/ config.failClosed /\ signer[p] = {} /\ Leave(p)
       \/ /\ ~config.failClosed \/ signer[p] # {}
          /\ On(p, "bind") /\ UNCHANGED <<keyFile, fresh, signer>> /\ Quiet

Bind(p) ==
    /\ At(p, "bind")
    /\ \/ On(p, "serving") /\ UNCHANGED <<keyFile, fresh, signer>> /\ Quiet
       \/ Leave(p)

\* A verdict is recorded with the logger's key.
SignReceipt(p) ==
    /\ At(p, "serving") /\ signer[p] # {}
    /\ ledger' = ledger \cup signer[p]
    /\ UNCHANGED <<config, keyFile, step, fresh, signer, profiles, starts>>

Kill(p) == ~At(p, "off") /\ Leave(p)

BootNext == \E p \in Replicas :
    \/ Start(p) \/ OpenStorage(p) \/ SeedDemoData(p) \/ AutoImportConfig(p)
    \/ LoadDictumOverlay(p) \/ LoadOrCreate(p) \/ CreateKeyFile(p) \/ WriteKeyFile(p)
    \/ VerifyCreatedKeyPermissions(p) \/ OpenReceiptStore(p) \/ RequireReceiptsOrExit(p)
    \/ Bind(p) \/ SignReceipt(p) \/ Kill(p)
BootSpec == BootInit /\ [][BootNext]_bootVars

-----------------------------------------------------------------------------
\* One key file is one signing key: however the replicas race to create it,
\* and wherever one of them is killed, every replica that signs receipts and
\* every receipt ever signed uses the same seed, and a replica that could be
\* restarted would find that seed in the file (signer.rs load_or_create).
OneSigningKey ==
    LET used == ledger \cup UNION {signer[p] : p \in Replicas}
    IN \A k \in used : keyFile = k

=============================================================================
