------------------------------- MODULE Plugins -------------------------------
(***************************************************************************)
(* Supply chain of WASM plugins: the registry's reload, which loads every   *)
(* file of the plugin directory and annotates it with what its sidecar      *)
(* bundle attests; `iaga plugins verify`; and signed manifests              *)
(* (plugins/registry.rs, host.rs, attestation.rs, manifest.rs, the plugin   *)
(* commands of main.rs and the reload handler).                            *)
(*                                                                         *)
(* Every file is read on its own, the module and its bundle even twice, and *)
(* anyone may replace a file between two reads.  A file's content is a      *)
(* build, its SHA-256 the build itself, and a signature the pair of the key *)
(* and what was signed.                                                    *)
(***************************************************************************)
EXTENDS Naturals, FiniteSets

CONSTANTS
    Files,        \* plugin files of the directory
    Builds,       \* contents a plugin file can have
    Broken,       \* builds that are no module or miss a required export
    SignKeys,     \* Ed25519 keys
    Pinned,       \* IAGA_SENTINEL_PLUGIN_PUBKEY: {} or {key}
    Trusted,      \* the keys given to verify-manifest
    Loaders,      \* concurrent reloads and verifications
    MaxDiskOps,   \* bound on the writes of others to the directory
    Missing       \* no such file

ASSUME PluginAssumption ==
    /\ Broken \subseteq Builds /\ Missing \notin Builds
    /\ Pinned \subseteq SignKeys /\ Cardinality(Pinned) <= 1
    /\ Trusted \subseteq SignKeys /\ MaxDiskOps \in Nat

VARIABLES
    wasm,            \* file -> build or Missing
    bundle,          \* file -> {} or {[digest, sig]} (<wasm>.sigstore.json)
    manifest,        \* file -> {} or {[build, signer]} (<wasm>.manifest.json)
    manifestSig,     \* file -> {} or {<<key, manifest>>}
    signing,         \* manifests written whose signature is not: [file, sig]
    signedBuilds,    \* <<key, build>> ever signed (ghost)
    signedManifests, \* <<key, manifest>> ever signed (ghost)
    pluginList,      \* PluginRegistryState: [plugins, errors]
    loader,          \* the reload or verification of every slot
    check,           \* a verify-manifest under way
    diskOps
diskVars == <<wasm, bundle, manifest, manifestSig, signing, signedBuilds,
              signedManifests>>
pluginVars == <<diskVars, pluginList, loader, check, diskOps>>

NoWork == [pc |-> "idle"]

PluginInit ==
    /\ wasm = [f \in Files |-> Missing]
    /\ bundle = [f \in Files |-> {}]
    /\ manifest = [f \in Files |-> {}] /\ manifestSig = [f \in Files |-> {}]
    /\ signing = {} /\ signedBuilds = {} /\ signedManifests = {}
    /\ pluginList = [plugins |-> {}, errors |-> {}]
    /\ loader = [r \in Loaders |-> NoWork]
    /\ check = NoWork /\ diskOps = 0

-----------------------------------------------------------------------------
(* What others do to the directory.                                        *)

DiskOp == diskOps < MaxDiskOps /\ diskOps' = diskOps + 1

\* A deployment puts another build in place, or removes the file; a load that
\* has the module and not yet the bytes to attest is overtaken (ghost).
InstallPlugin(f, b) ==
    /\ DiskOp /\ b # wasm[f]
    /\ wasm' = [wasm EXCEPT ![f] = b]
    /\ loader' = [r \in Loaders |->
          IF loader[r].pc = "attest" /\ loader[r].file = f
          THEN [loader[r] EXCEPT !.overtaken = TRUE] ELSE loader[r]]
    /\ UNCHANGED <<bundle, manifest, manifestSig, signing, signedBuilds,
                   signedManifests, pluginList, check>>

\* The holder of a key signs the build that is there (cosign sign-blob).
SignBlob(f, k) ==
    /\ DiskOp /\ wasm[f] # Missing
    /\ bundle' = [bundle EXCEPT ![f] = {[digest |-> wasm[f], sig |-> {<<k, wasm[f]>>}]}]
    /\ signedBuilds' = signedBuilds \cup {<<k, wasm[f]>>}
    /\ UNCHANGED <<wasm, manifest, manifestSig, signing, signedManifests,
                   pluginList, loader, check>>

\* A bundle put together from what is there: any digest, with an existing
\* signature or (a legacy bundle) none.
OtherBundle(f, d) ==
    /\ DiskOp
    /\ \E sig \in {{}} \cup {{s} : s \in signedBuilds} :
         bundle' = [bundle EXCEPT ![f] = {[digest |-> d, sig |-> sig]}]
    /\ UNCHANGED <<wasm, manifest, manifestSig, signing, signedBuilds,
                   signedManifests, pluginList, loader, check>>

\* A key holder writes and signs a manifest that declares any signer.
ForeignManifest(f, k, m) ==
    /\ DiskOp
    /\ manifest' = [manifest EXCEPT ![f] = {m}]
    /\ manifestSig' = [manifestSig EXCEPT ![f] = {<<k, m>>}]
    /\ signedManifests' = signedManifests \cup {<<k, m>>}
    /\ UNCHANGED <<wasm, bundle, signing, signedBuilds, pluginList, loader, check>>

-----------------------------------------------------------------------------
(* Attestation: verify_plugin_with_pinned_key.                             *)

DigestAttested(a) == a.hasBundle /\ a.digestMatch

\* Mutant: a matching digest counts as verified.
DigestIsEnough(a) == DigestAttested(a)

\* offline_verified: the digest matches and the pinned key signed the bytes.
OfflineVerified(a) == DigestAttested(a) /\ a.sigVerified

\* The exit status of `iaga plugins verify`: a check that ran and failed.
VerifyExit(a) ==
    IF a.hasBundle /\ (~DigestAttested(a) \/ (a.sigChecked /\ ~a.sigVerified))
    THEN 1 ELSE 0

NoAttestation == [bytes |-> Missing, hasBundle |-> FALSE, digestMatch |-> FALSE,
                  sigVerified |-> FALSE, sigChecked |-> FALSE]

\* The module's bytes are read (again, in a reload) and the bundle looked for.
\* An unreadable file leaves a reload's plugin without annotation and ends a
\* verification.
ReadBytes(r) ==
    /\ loader[r].pc = "attest"
    /\ LET w == loader[r]
       IN loader' = [loader EXCEPT ![r] =
              IF wasm[w.file] = Missing
              THEN IF w.kind = "verify" THEN NoWork ELSE [w EXCEPT !.pc = "push"]
              ELSE [w EXCEPT !.pc = "digest", !.att.bytes = wasm[w.file],
                             !.att.hasBundle = bundle[w.file] # {}]]
    /\ UNCHANGED <<diskVars, pluginList, check, diskOps>>

\* verify_bundle reads the bundle; one that is gone or malformed matches
\* nothing.
ReadDigest(r) ==
    /\ loader[r].pc = "digest"
    /\ LET w == loader[r]
       IN loader' = [loader EXCEPT ![r].pc = "signature", ![r].att.digestMatch =
              w.att.hasBundle /\ \E b \in bundle[w.file] : b.digest = w.att.bytes]
    /\ UNCHANGED <<diskVars, pluginList, check, diskOps>>

\* verify_bundle_signature reads it once more: nothing without a pinned key.
ReadSignature(r) ==
    /\ loader[r].pc = "signature"
    /\ LET w == loader[r]
           checked == Pinned # {} /\ w.att.hasBundle
       IN loader' = [loader EXCEPT
              ![r].pc = IF w.kind = "verify" THEN "exit" ELSE "push",
              ![r].att.sigChecked = checked,
              ![r].att.sigVerified = /\ checked
                                     /\ \E b \in bundle[w.file], k \in Pinned :
                                          <<k, w.att.bytes>> \in b.sig]
    /\ UNCHANGED <<diskVars, pluginList, check, diskOps>>

-----------------------------------------------------------------------------
(* PluginRegistry::reload.                                                 *)

\* The directory is listed; one that is not there is empty, as are entries
\* that cannot be read, and one that cannot be listed is an error.
BeginReload(r) ==
    /\ loader[r].pc = "idle"
    /\ \E seen \in {{f \in Files : wasm[f] # Missing}, {}} :
       \E failed \in IF seen = {} THEN {{}, {"directory"}} ELSE {{}} :
         loader' = [loader EXCEPT ![r] =
             [pc |-> "next", kind |-> "reload", todo |-> seen, plugins |-> {},
              errors |-> failed, file |-> Missing, build |-> Missing,
              overtaken |-> FALSE, att |-> NoAttestation]]
    /\ UNCHANGED <<diskVars, pluginList, check, diskOps>>

\* LoadedPlugin::from_file: compiled, and its exports checked.
LoadFile(r, f) ==
    /\ loader[r].pc = "next" /\ f \in loader[r].todo
    /\ LET w == loader[r]
       IN loader' = [loader EXCEPT ![r] =
              IF wasm[f] \in Broken \cup {Missing}
              THEN [w EXCEPT !.todo = @ \ {f}, !.errors = @ \cup {f}]
              ELSE [w EXCEPT !.pc = "attest", !.todo = @ \ {f}, !.file = f,
                             !.build = wasm[f], !.overtaken = FALSE,
                             !.att = NoAttestation]]
    /\ UNCHANGED <<diskVars, pluginList, check, diskOps>>

\* annotate_with_attestation, and the plugin joins the list.
PushPlugin(r) ==
    /\ loader[r].pc = "push"
    /\ LET w == loader[r]
           p == [file |-> w.file, build |-> w.build, verified |-> OfflineVerified(w.att),
                 attested |-> w.att.bytes, overtaken |-> w.overtaken]
       IN loader' = [loader EXCEPT ![r].pc = "next", ![r].plugins = @ \cup {p}]
    /\ UNCHANGED <<diskVars, pluginList, check, diskOps>>

\* The new lists replace the old ones under the write lock, whichever reload
\* began first.
SwapRegistry(r) ==
    /\ loader[r].pc = "next" /\ loader[r].todo = {}
    /\ pluginList' = [plugins |-> loader[r].plugins, errors |-> loader[r].errors]
    /\ loader' = [loader EXCEPT ![r] = NoWork]
    /\ UNCHANGED <<diskVars, check, diskOps>>

\* iaga plugins verify, in a process of its own.
BeginVerify(r, f) ==
    /\ loader[r].pc = "idle"
    /\ loader' = [loader EXCEPT ![r] =
           [pc |-> "attest", kind |-> "verify", file |-> f, overtaken |-> FALSE,
            att |-> NoAttestation]]
    /\ UNCHANGED <<diskVars, pluginList, check, diskOps>>

ExitVerify(r) ==
    /\ loader[r].pc = "exit"
    /\ loader' = [loader EXCEPT ![r] = NoWork]
    /\ UNCHANGED <<diskVars, pluginList, check, diskOps>>

-----------------------------------------------------------------------------
(* Signed manifests.                                                       *)

\* sign_manifest: the manifest is written ...
SignManifest(f, k) ==
    /\ wasm[f] # Missing /\ signing = {} /\ DiskOp
    /\ LET m == [build |-> wasm[f], signer |-> k]
       IN /\ manifest' = [manifest EXCEPT ![f] = {m}]
          /\ signing' = {[file |-> f, sig |-> <<k, m>>]}
          /\ signedManifests' = signedManifests \cup {<<k, m>>}
    /\ UNCHANGED <<wasm, bundle, manifestSig, signedBuilds, pluginList, loader,
                   check>>

\* ... and then its signature, unless the process ends in between.
WriteSignature(s) ==
    /\ s \in signing /\ signing' = {}
    /\ manifestSig' \in {manifestSig, [manifestSig EXCEPT ![s.file] = {s.sig}]}
    /\ UNCHANGED <<wasm, bundle, manifest, signedBuilds, signedManifests,
                   pluginList, loader, check, diskOps>>

\* verify_signed_manifest: both files must be there and the manifest parse ...
ReadManifest(f) ==
    /\ check.pc = "idle" /\ manifestSig[f] # {} /\ Trusted # {}
    /\ \E m \in manifest[f] :
         check' = [pc |-> "bytes", file |-> f, m |-> m]
    /\ UNCHANGED <<diskVars, pluginList, loader, diskOps>>

\* ... the module's digest must be the one it names ...
CompareDigest ==
    /\ check.pc = "bytes"
    /\ check' = IF wasm[check.file] = check.m.build
                THEN [check EXCEPT !.pc = "signature"] ELSE NoWork
    /\ UNCHANGED <<diskVars, pluginList, loader, diskOps>>

\* The first trusted key that verifies the signature must be the declared one.
SignerMatches(k, m) == k = m.signer

CheckSignature ==
    /\ check.pc = "signature"
    /\ check' = IF \E k \in Trusted : /\ <<k, check.m>> \in manifestSig[check.file]
                                      /\ SignerMatches(k, check.m)
                THEN [check EXCEPT !.pc = "verified"] ELSE NoWork
    /\ UNCHANGED <<diskVars, pluginList, loader, diskOps>>

ReportVerified ==
    /\ check.pc = "verified" /\ check' = NoWork
    /\ UNCHANGED <<diskVars, pluginList, loader, diskOps>>

DeployStep == \E f \in Files, b \in Builds \cup {Missing} : InstallPlugin(f, b)

AttestStep ==
    \/ \E f \in Files : \/ \E k \in SignKeys : SignBlob(f, k)
                       \/ \E d \in Builds : OtherBundle(f, d)
    \/ \E r \in Loaders :
         \/ BeginReload(r) \/ ReadBytes(r) \/ ReadDigest(r) \/ ReadSignature(r)
         \/ PushPlugin(r) \/ SwapRegistry(r) \/ ExitVerify(r)
         \/ \E f \in Files : LoadFile(r, f) \/ BeginVerify(r, f)

ManifestStep ==
    \/ \E f \in Files :
         \/ \E k \in SignKeys : SignManifest(f, k)
         \/ \E k, d \in SignKeys, b \in Builds :
              ForeignManifest(f, k, [build |-> b, signer |-> d])
         \/ ReadManifest(f)
    \/ \E s \in signing : WriteSignature(s)
    \/ CompareDigest \/ CheckSignature \/ ReportVerified

\* Bundles and manifests meet only in the plugin file.
PluginNext == DeployStep \/ AttestStep \/ ManifestStep
PluginSpec == PluginInit /\ [][PluginNext]_pluginVars

-----------------------------------------------------------------------------
(* Properties.                                                             *)

\* A plugin the registry shows as verified: the pinned key signed the bytes
\* that were attested, and they are the bytes that run unless the file was
\* replaced between the two reads.
VerifiedPluginsSigned ==
    \A p \in pluginList.plugins :
        /\ p.verified => \E k \in Pinned : <<k, p.attested>> \in signedBuilds
        /\ (p.attested # Missing /\ ~p.overtaken) => p.build = p.attested

\* `iaga plugins verify` exits 0 for a bundle only if it matches and, with a
\* key pinned, the key signed the bytes that were read.
ExitsHonest ==
    \A r \in Loaders : loader[r].pc = "exit" =>
        LET a == loader[r].att
        IN (VerifyExit(a) = 0 /\ a.hasBundle /\ Pinned # {}) =>
               \E k \in Pinned : <<k, a.bytes>> \in signedBuilds

\* A verified manifest was signed by the trusted key it declares, and not by
\* another trusted key in its name.
ManifestsSigned ==
    check.pc = "verified" => /\ check.m.signer \in Trusted
                             /\ <<check.m.signer, check.m>> \in signedManifests

\* Whatever is called verified was signed, by the key that is named, over the
\* very bytes that were judged: files replaced between the reads, bundles and
\* signatures put together from old ones, a signing that stopped half-way and
\* reloads that overtake each other never make an unsigned build "verified"
\* (PluginAttestation::offline_verified, verify_signed_manifest).
VerifiedMeansSigned == VerifiedPluginsSigned /\ ExitsHonest /\ ManifestsSigned
=============================================================================
