------------------------------ MODULE ChainAudit ------------------------------
(***************************************************************************)
(* Evidence that leaves the system: `iaga replay` on the receipt store,    *)
(* `iaga replay --export`, and `iaga-verify`, the standalone verifier an   *)
(* auditor runs on the file with no database.  Between the two the file    *)
(* is out of the system's hands.                                           *)
(*                                                                         *)
(* A receipt of the file is its body, with the signer_key_id the body      *)
(* claims, and its signature: who signed, and which body.                  *)
(***************************************************************************)
EXTENDS ReceiptRead

CONSTANTS
    Stranger,   \* a key no process of the system signs with
    NotHex,     \* a text that is not a public key
    None,       \* an option that is not given
    NoFile, NoReport,
    Garbage,    \* a file that does not parse as a ChainExport
    ListLimit,  \* the runs list_runs() returns at most: 10_000
    OtherRuns,  \* run ids no receipt has, to ask for and to relabel with
    Counts,     \* the numbers given with --expect-count
    MaxEdits    \* bound: changes to the file between export and verification

ASSUME StrangerAssumption ==
    /\ Stranger \notin {NotHex, None}
    /\ \A p \in Replicas : KeyOf[p] \notin {Stranger, NotHex, None}
ASSUME ListAssumption == ListLimit \in Nat \ {0}
ASSUME EditsAssumption == MaxEdits \in Nat /\ Counts \subseteq Nat /\ None \notin Nat

VARIABLES
    file,       \* the exported file
    edits,      \* the changes made to it
    report      \* the answer of the last command, about the file as it is

auditVars == <<readVars, file, edits, report>>

-----------------------------------------------------------------------------
(* iaga replay *)

\* load_or_create on the machine of the auditor: the key of a process whose key
\* file is there, or a key made up on the spot where there is none.
LoadedKeys == {KeyOf[p] : p \in Replicas} \cup {Stranger}

Recorded == {r.run : r \in rows}

\* id.rsplit_once(':'): the text after the last colon, if there is one.
SessionPart(run) ==
    LET colons == {i \in 1..Len(run) : run[i] = ":"}
    IN  IF colons = {} THEN None ELSE SubSeq(run, Max(colons) + 1, Len(run))

\* What list_runs(ListLimit) may return: every run, or the latest ListLimit of
\* them, whichever those are; nothing when it fails.
Listings ==
    {{}} \cup IF Cardinality(Recorded) <= ListLimit THEN {Recorded}
             ELSE {listed \in SUBSET Recorded : Cardinality(listed) = ListLimit}

\* The run an argument names: a recorded run, else the only listed run of that
\* session, else itself; None stands for "matches multiple runs".  A failed
\* get_run counts as "not recorded".
Resolve(arg, found, listed) ==
    LET hits == {run \in listed : SessionPart(run) = arg}
    IN  IF (found /\ arg \in Recorded) \/ hits = {} THEN arg
        ELSE IF Cardinality(hits) > 1 THEN None ELSE CHOOSE run \in hits : TRUE

Resolutions(arg) == {Resolve(arg, found, listed) : found \in BOOLEAN, listed \in Listings}

\* A row as the file carries it: the store returns what was signed.
Exported(row) == [body |-> row, signedBy |-> row.key, signed |-> row]

\* `iaga replay <arg> --export`, with the key vk.
\* Nothing is written for an ambiguous argument or an empty run, or when the
\* read of the run or the write fails.
Export(vk, arg) ==
    /\ file = NoFile
    /\ \E run \in Resolutions(arg) :
         \/ /\ run \in Recorded
            /\ LET chain == GetRun(run)
               IN  file' = [run |-> run, signer |-> vk, key |-> vk,
                            receipts |-> [i \in 1..Len(chain) |-> Exported(chain[i])]]
            /\ report' = [tool |-> "export", exit |-> 0]
         \/ /\ report' = [tool |-> "export", exit |-> IF run = None THEN 2 ELSE 3]
            /\ UNCHANGED file
    /\ UNCHANGED <<readVars, edits>>

\* `iaga replay <arg>`: the chain is verified where it is stored.  The listing
\* that follows a valid chain reads the run again and may fail.
Replay(vk, arg) ==
    /\ \E run \in Resolutions(arg) :
         LET chain == GetRun(run)
             status == VerifyChain(chain, vk).status
         IN  report' \in CASE run = None -> {[tool |-> "replay", exit |-> 2]}
                           [] run # None /\ status = "valid" ->
                                {[tool |-> "replay", exit |-> 0, run |-> run, key |-> vk,
                                  count |-> Len(chain)], [tool |-> "replay", exit |-> 3]}
                           [] run # None /\ status = "broken" ->
                                {[tool |-> "replay", exit |-> x] : x \in {1, 3}}
                           [] OTHER -> {[tool |-> "replay", exit |-> 3]}
    /\ UNCHANGED <<readVars, file, edits>>

-----------------------------------------------------------------------------
(* The file between the two commands. *)

Bodies(f) == [i \in 1..Len(f.receipts) |-> f.receipts[i].body]

\* The whole chain written again by somebody with a key of his own, whose
\* receipts, signed and linked, claim the signer `claim`.
Rewritten(f, claim) ==
    LET body[i \in 1..Len(f.receipts)] ==
            [f.receipts[i].body EXCEPT
                !.key = claim,
                !.parent = IF i = 1 THEN NoParent ELSE BodyHash(body[i - 1])]
    IN  [f EXCEPT !.signer = claim, !.key = Stranger,
                  !.receipts = [i \in 1..Len(f.receipts) |->
                      [body |-> body[i], signedBy |-> Stranger, signed |-> body[i]]]]

\* A receipt lost, two exchanged, one taken from another run, a body changed
\* under its signature, the envelope relabelled, the chain rewritten.
Edited(f) ==
    LET n == Len(f.receipts) IN
    {[f EXCEPT !.receipts = RemoveAt(@, i)] : i \in 1..n}
    \cup {[f EXCEPT !.receipts = [@ EXCEPT ![i] = f.receipts[i + 1],
                                           ![i + 1] = f.receipts[i]]] : i \in 1..(n - 1)}
    \cup {[f EXCEPT !.receipts = Append(@, Exported(r))] : r \in rows}
    \cup {[f EXCEPT !.receipts[i].body.event = e] : i \in 1..n, e \in Events}
    \cup {[f EXCEPT !.run = run] : run \in Runs \cup OtherRuns}
    \cup {[f EXCEPT !.key = k] : k \in {Stranger, NotHex}}
    \cup {Rewritten(f, claim) : claim \in {Stranger, f.signer}}

Edit ==
    /\ file \notin {NoFile, Garbage}
    /\ edits < MaxEdits
    /\ file' \in (Edited(file) \cup {Garbage}) \ {file}
    /\ edits' = edits + 1
    /\ report' = NoReport
    /\ UNCHANGED readVars

-----------------------------------------------------------------------------
(* iaga-verify *)

\* verify_receipt(): the signature is one of this body, made with vk.
GoodSignature(r, vk) == r.signedBy = vk /\ r.signed = r.body

\* Mutant: the envelope's run_id is not compared with the receipts'.
RunIdUnchecked(f, vk) ==
    IF \/ f.signer # vk
       \/ \E i \in 1..Len(f.receipts) : f.receipts[i].body.key # vk
    THEN [status |-> "broken"]
    ELSE VerifyLinks(Bodies(f),
             {i \in 1..Len(f.receipts) : GoodSignature(f.receipts[i], vk)})

\* verify_export() once the key is parsed: the label of the file and the signer
\* each receipt claims must be the key that verifies it, the run of each
\* receipt the one of the envelope, before the chain itself is checked.
VerifyExport(f, vk) ==
    IF \/ f.signer # vk
       \/ \E i \in 1..Len(f.receipts) : \/ f.receipts[i].body.key # vk
                                        \/ f.receipts[i].body.run # f.run
    THEN [status |-> "broken"]
    ELSE VerifyLinks(Bodies(f),
             {i \in 1..Len(f.receipts) : GoodSignature(f.receipts[i], vk)})

\* main(): the exit code, for the file, --key and --expect-count.
ExitCode(f, pinned, expect) ==
    IF f = Garbage THEN 3 ELSE
    LET vk == IF pinned = None THEN f.key ELSE pinned
    IN  IF vk = NotHex THEN 3 ELSE
        LET status == VerifyExport(f, vk)
        IN  IF status.status = "valid" /\ expect \in {None, status.count}
            THEN 0 ELSE 1

\* CHAIN OK names the key that was used; the other answers only fail.
Verify(pinned, expect) ==
    /\ file # NoFile
    /\ LET exit == ExitCode(file, pinned, expect)
       IN  report' = IF exit # 0 THEN [tool |-> "verify", exit |-> exit]
                     ELSE [tool |-> "verify", exit |-> 0, expect |-> expect,
                           key |-> IF pinned = None THEN file.key ELSE pinned]
    /\ UNCHANGED <<readVars, file, edits>>

\* Wrong arguments of either command, or `iaga replay` on another database than
\* SQLite: nothing is read.
Usage ==
    /\ report' = [tool |-> "usage", exit |-> 2]
    /\ UNCHANGED <<readVars, file, edits>>

-----------------------------------------------------------------------------
AuditInit == ReadInit /\ file = NoFile /\ edits = 0 /\ report = NoReport

Arguments == Runs \cup OtherRuns \cup {Session[e] : e \in Events}

AuditStep ==
    \/ \E vk \in LoadedKeys, arg \in Arguments : Export(vk, arg) \/ Replay(vk, arg)
    \/ Edit
    \/ \E pinned \in LoadedKeys \cup {NotHex, None}, expect \in Counts \cup {None} : Verify(pinned, expect)
    \/ Usage

\* The commands run beside the writers and the read API.
AuditNext ==
    \/ ReadNext /\ UNCHANGED <<file, edits, report>>
    \/ AuditStep

AuditSpec == AuditInit /\ [][AuditNext]_auditVars

-----------------------------------------------------------------------------
\* The last command was this one and exited with 0.
Answered(tool) == report # NoReport /\ report.tool = tool /\ report.exit = 0

\* Whatever happened to the file, `CHAIN OK` (exit 0) means that the printed
\* signer is the key that verified it and, when that key is one of the system's,
\* that the receipts are the first ones of that very run, each at its place and
\* as the store has it; an --expect-count that is the run's real length means
\* that none is missing.  An untouched file gets the answer the runtime gives
\* for the same receipts and key: the two "cannot disagree".  `iaga replay`
\* answers OK only for receipts its own key signed.
AuditSound ==
    /\ Answered("verify") =>
         /\ file.signer = report.key
         /\ report.key # Stranger =>
              /\ \A i \in 1..Len(file.receipts) :
                    /\ file.receipts[i].body \in RowsOf(file.run)
                    /\ file.receipts[i].body.seq = i - 1
              /\ report.expect = Cardinality(RowsOf(file.run)) =>
                    RowsOf(file.run) \subseteq Range(Bodies(file))
    /\ file \notin {NoFile, Garbage} /\ edits = 0 =>
         (ExitCode(file, None, None) = 0
            <=> VerifyChain(Bodies(file), file.key).status = "valid")
    /\ Answered("replay") =>
         /\ report.count > 0
         /\ \A n \in 0..(report.count - 1) :
              \E r \in RowsOf(report.run) : r.seq = n /\ r.key = report.key
=============================================================================
