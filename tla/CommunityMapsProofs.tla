-------------------------- MODULE CommunityMapsProofs --------------------------
(***************************************************************************)
(* Theorems about TrustedKeys, for any number of processes, keys and       *)
(* commands, and any number of deaths; and about CommunityMaps, for any    *)
(* importers, packages and changes of the directory they come from, beside *)
(* any keys commands.                                                      *)
(***************************************************************************)
EXTENDS CommunityMaps, TLAPS

(***************************************************************************)
(* What a command that is under way holds.                                 *)
(***************************************************************************)
KeeperOK(step) ==
  /\ step.pc = "idle" => step = AtRest
  /\ step.pc # "idle" => step.id \in KeyIds
  /\ step.pc = "read" => step.record = AbsentFile
  /\ step.pc \in {"open", "write"} =>
       step.record \in Records /\ (step.record.status = "trusted" \/ step.record.status = "revoked")

(***************************************************************************)
(* Nobody is about to write a public key that was not given for its key,   *)
(* and nobody is about to write `trusted` over a revocation.               *)
(***************************************************************************)
PendingGiven ==
  \A w \in Keepers : keeper[w].record \in Records =>
    <<keeper[w].id, keeper[w].record.public_key>> \in given

BarredForGood ==
  \A k \in KeyIds : barred[k] =>
    /\ keys[k].status # "trusted"
    /\ keys[k].status # "absent"
    /\ \A w \in Keepers : keeper[w].id = k => keeper[w].record.status # "trusted"

KeyIInv ==
  /\ KeyTypeOK
  /\ \A w \in Keepers : KeeperOK(keeper[w])
  /\ PendingGiven
  /\ KeysAreGiven
  /\ BarredForGood

LEMMA KeyFileTypes ==
  /\ AbsentFile \in KeyFiles /\ EmptyFile \in KeyFiles /\ GarbledFile \in KeyFiles
  /\ AbsentFile \notin Records /\ EmptyFile \notin Records /\ GarbledFile \notin Records
  /\ Records \subseteq KeyFiles
  /\ \A r \in Records : /\ r.public_key \in PublicKeys
                        /\ r.status \in {"trusted", "revoked"}
                        /\ r = Record(r.public_key, r.status)
  /\ \A p \in PublicKeys, s \in {"trusted", "revoked"} :
       /\ Record(p, s) \in Records
       /\ Record(p, s).public_key = p /\ Record(p, s).status = s
  /\ AbsentFile.status = "absent" /\ EmptyFile.status = "empty"
  /\ GarbledFile.status = "garbled"
  /\ AtRest.pc = "idle" /\ AtRest.id = NoKey /\ AtRest.record = AbsentFile
  BY DEF AbsentFile, EmptyFile, GarbledFile, Records, KeyFiles, Record, AtRest

LEMMA InitKeyIInv == KeyInit => KeyIInv
  BY KeyFileTypes, BoundsAssumption, NoKeyAssumption
  DEF KeyInit, KeyIInv, KeyTypeOK, KeeperOK, PendingGiven, KeysAreGiven, BarredForGood, AtRest

(***************************************************************************)
(* Trusting a key with --force lifts its revocation, and no other.         *)
(***************************************************************************)
LEMMA BarredByTrust ==
  ASSUME barred \in [KeyIds -> BOOLEAN], NEW k \in KeyIds, NEW force \in BOOLEAN,
         barred' = [barred EXCEPT ![k] = @ /\ ~force]
  PROVE  /\ barred' \in [KeyIds -> BOOLEAN]
         /\ \A j \in KeyIds : barred'[j] => barred[j] /\ (j = k => ~force)
<1>1. barred' = [j \in KeyIds |-> IF j = k THEN barred[k] /\ ~force ELSE barred[j]]
  OBVIOUS
<1>2. (barred[k] /\ ~force) \in BOOLEAN
  OBVIOUS
<1>3. \A j \in KeyIds : barred'[j] => barred[j] /\ (j = k => ~force)
  BY <1>1, Zenon
<1>4. QED
  BY <1>1, <1>2, <1>3, Zenon

(***************************************************************************)
(* Each step keeps the invariant.                                          *)
(***************************************************************************)
LEMMA TrustStep ==
  ASSUME KeyIInv, NEW w \in Keepers, NEW k \in KeyIds, NEW p \in PublicKeys,
         NEW force \in BOOLEAN, trust_key_file(w, k, p, force)
  PROVE  KeyIInv'
<1> DEFINE step == [pc |-> "open", id |-> k, record |-> Record(p, "trusted")]
<1> USE KeyFileTypes DEF KeyIInv
<1>1. /\ keeper' = [keeper EXCEPT ![w] = step]
      /\ keys' = keys /\ keyFaults' = keyFaults /\ torn' = torn
      /\ keyCommands < MaxKeyCommands /\ keyCommands' = keyCommands + 1
      /\ given' = given \cup {<<k, p>>}
      /\ barred' = [barred EXCEPT ![k] = @ /\ ~force]
      /\ keys[k] = AbsentFile \/ force
  BY DEF trust_key_file, BeginKeyCommand
<1>2. KeyTypeOK'
  <2>1. keeper' \in [Keepers -> [pc : {"idle", "read", "open", "write"},
                                 id : KeyIds \cup {NoKey}, record : Records \cup {AbsentFile}]]
    BY <1>1 DEF KeyTypeOK
  <2>2. barred' \in [KeyIds -> BOOLEAN]
    BY <1>1, BarredByTrust DEF KeyTypeOK
  <2>3. keyCommands' \in 0 .. MaxKeyCommands
    BY <1>1, BoundsAssumption DEF KeyTypeOK
  <2>4. QED
    BY <1>1, <2>1, <2>2, <2>3 DEF KeyTypeOK
<1>3. \A v \in Keepers : keeper'[v] = IF v = w THEN step ELSE keeper[v]
  BY <1>1 DEF KeyTypeOK
<1>4. \A v \in Keepers : KeeperOK(keeper[v])'
  BY <1>3 DEF KeeperOK
<1>5. PendingGiven'
  BY <1>1, <1>3 DEF PendingGiven
<1>6. KeysAreGiven'
  BY <1>1 DEF KeysAreGiven
<1>7. BarredForGood'
  <2> SUFFICES ASSUME NEW j \in KeyIds, barred'[j]
               PROVE  /\ keys[j].status # "trusted"
                      /\ keys[j].status # "absent"
                      /\ \A v \in Keepers : keeper'[v].id = j => keeper'[v].record.status # "trusted"
    BY <1>1 DEF BarredForGood
  <2>1. barred[j] /\ (j = k => ~force)
    <3>1. barred \in [KeyIds -> BOOLEAN]
      BY DEF KeyTypeOK
    <3>2. barred' = [barred EXCEPT ![k] = @ /\ ~force]
      BY <1>1
    <3>3. QED
      BY <3>1, <3>2, BarredByTrust
  <2>2. j # k
    BY <1>1, <2>1 DEF BarredForGood
  <2>3. QED
    BY <1>3, <2>1, <2>2 DEF BarredForGood
<1>8. QED
  BY <1>2, <1>4, <1>5, <1>6, <1>7

LEMMA RevokeStep ==
  ASSUME KeyIInv, NEW w \in Keepers, NEW k \in KeyIds, revoke_trusted_key(w, k)
  PROVE  KeyIInv'
<1> DEFINE step == [pc |-> "read", id |-> k, record |-> AbsentFile]
<1> USE KeyFileTypes DEF KeyIInv
<1>1. /\ keeper' = [keeper EXCEPT ![w] = step]
      /\ keys' = keys /\ keyFaults' = keyFaults /\ given' = given /\ barred' = barred
      /\ torn' = torn
      /\ keyCommands < MaxKeyCommands /\ keyCommands' = keyCommands + 1
  BY DEF revoke_trusted_key, BeginKeyCommand, keyHistory
<1>2. \A v \in Keepers : keeper'[v] = IF v = w THEN step ELSE keeper[v]
  BY <1>1 DEF KeyTypeOK
<1>3. KeyTypeOK'
  BY <1>1, BoundsAssumption DEF KeyTypeOK
<1>4. \A v \in Keepers : KeeperOK(keeper[v])'
  BY <1>2 DEF KeeperOK
<1>5. PendingGiven'
  BY <1>1, <1>2 DEF PendingGiven
<1>6. KeysAreGiven'
  BY <1>1 DEF KeysAreGiven
<1>7. BarredForGood'
  BY <1>1, <1>2 DEF BarredForGood
<1>8. QED
  BY <1>3, <1>4, <1>5, <1>6, <1>7

LEMMA ReadStep ==
  ASSUME KeyIInv, NEW w \in Keepers, ReadRecord(w)
  PROVE  KeyIInv'
<1> DEFINE k == keeper[w].id
           step == IF keys[k] \in Records
                   THEN [pc |-> "open", id |-> k, record |-> Record(keys[k].public_key, "revoked")]
                   ELSE AtRest
<1> USE KeyFileTypes DEF KeyIInv
<1>1. k \in KeyIds
  BY DEF KeyTypeOK, KeeperOK, ReadRecord
<1>2. /\ keeper' = [keeper EXCEPT ![w] = step]
      /\ keys' = keys /\ keyFaults' = keyFaults /\ given' = given /\ barred' = barred
      /\ torn' = torn
      /\ keyCommands' = keyCommands
  BY DEF ReadRecord, keyHistory
<1>3. \A v \in Keepers : keeper'[v] = IF v = w THEN step ELSE keeper[v]
  BY <1>2 DEF KeyTypeOK
<1>4. step \in [pc : {"idle", "read", "open", "write"},
                id : KeyIds \cup {NoKey}, record : Records \cup {AbsentFile}]
  BY <1>1 DEF AtRest
<1>5. KeyTypeOK'
  BY <1>2, <1>4 DEF KeyTypeOK
<1>6. \A v \in Keepers : KeeperOK(keeper[v])'
  BY <1>1, <1>3 DEF KeeperOK, AtRest
<1>7. PendingGiven'
  BY <1>1, <1>2, <1>3 DEF PendingGiven, KeysAreGiven
<1>8. KeysAreGiven' /\ BarredForGood'
  BY <1>2, <1>3 DEF KeysAreGiven, BarredForGood
<1>9. QED
  BY <1>5, <1>6, <1>7, <1>8

LEMMA OpenStep ==
  ASSUME KeyIInv, NEW w \in Keepers, OpenRecord(w)
  PROVE  KeyIInv'
<1> USE KeyFileTypes DEF KeyIInv
<1>1. /\ keys' = [keys EXCEPT ![keeper[w].id] = EmptyFile]
      /\ keeper[w].pc = "open"
      /\ keeper' = [keeper EXCEPT ![w].pc = "write"]
      /\ keyFaults' = keyFaults /\ given' = given /\ barred' = barred
      /\ keyCommands' = keyCommands
      /\ torn' = torn \cup {k \in {keeper[w].id} : BeingWritten(k)}
  BY DEF OpenRecord, keyHistory
<1>2. \A v \in Keepers : /\ keeper'[v].id = keeper[v].id
                         /\ keeper'[v].record = keeper[v].record
                         /\ keeper'[v].pc = IF v = w THEN "write" ELSE keeper[v].pc
  BY <1>1 DEF KeyTypeOK
<1>3. KeyTypeOK'
  <2>1. keeper[w].id \in KeyIds
    BY <1>1 DEF KeyTypeOK, KeeperOK
  <2>2. keys' \in [KeyIds -> KeyFiles]
    BY <1>1, <2>1 DEF KeyTypeOK
  <2>3. keeper' \in [Keepers -> [pc : {"idle", "read", "open", "write"},
                                 id : KeyIds \cup {NoKey}, record : Records \cup {AbsentFile}]]
    BY <1>1 DEF KeyTypeOK
  <2>4. torn' \subseteq KeyIds
    BY <1>1, <2>1 DEF KeyTypeOK
  <2>5. QED
    BY <1>1, <2>2, <2>3, <2>4 DEF KeyTypeOK
<1>4. \A v \in Keepers : KeeperOK(keeper[v])'
  <2>1. \A v \in Keepers : v # w => keeper'[v] = keeper[v]
    BY <1>1 DEF KeyTypeOK
  <2>2. QED
    BY <1>1, <1>2, <2>1 DEF KeeperOK
<1>5. \A k \in KeyIds : keys'[k] = EmptyFile \/ keys'[k] = keys[k]
  BY <1>1 DEF KeyTypeOK
<1>6. PendingGiven'
  BY <1>1, <1>2 DEF PendingGiven
<1>7. KeysAreGiven'
  BY <1>1, <1>5 DEF KeysAreGiven
<1>8. BarredForGood'
  BY <1>1, <1>2, <1>5 DEF BarredForGood
<1>9. QED
  BY <1>3, <1>4, <1>6, <1>7, <1>8

LEMMA WriteStep ==
  ASSUME KeyIInv, NEW w \in Keepers, WriteRecord(w)
  PROVE  KeyIInv'
<1> DEFINE k == keeper[w].id
           record == keeper[w].record
<1> USE KeyFileTypes DEF KeyIInv
<1>1. k \in KeyIds /\ record \in Records
  BY DEF KeyTypeOK, KeeperOK, WriteRecord
<1>2. PICK result \in {record, GarbledFile} : keys' = [keys EXCEPT ![k] = result]
  BY DEF WriteRecord
<1>3. /\ barred' = [barred EXCEPT ![k] =
                      @ \/ (record.status = "revoked" /\ ~BeingTrusted(k, w))]
      /\ keeper' = [keeper EXCEPT ![w] = AtRest]
      /\ keyFaults' = keyFaults /\ given' = given /\ keyCommands' = keyCommands
      /\ torn' = torn
  BY DEF WriteRecord
<1>4. \A v \in Keepers : keeper'[v] = IF v = w THEN AtRest ELSE keeper[v]
  BY <1>3 DEF KeyTypeOK
<1>5. KeyTypeOK'
  <2>1. keys' \in [KeyIds -> KeyFiles]
    BY <1>1, <1>2 DEF KeyTypeOK
  <2>2. keeper' \in [Keepers -> [pc : {"idle", "read", "open", "write"},
                                 id : KeyIds \cup {NoKey}, record : Records \cup {AbsentFile}]]
    BY <1>3 DEF KeyTypeOK, AtRest
  <2>3. barred' \in [KeyIds -> BOOLEAN]
    <3>1. (barred[k] \/ (record.status = "revoked" /\ ~BeingTrusted(k, w))) \in BOOLEAN
      OBVIOUS
    <3>2. QED
      BY <1>3, <3>1, Zenon DEF KeyTypeOK
  <2>4. QED
    BY <1>3, <2>1, <2>2, <2>3 DEF KeyTypeOK
<1>6. \A v \in Keepers : KeeperOK(keeper[v])'
  BY <1>4 DEF KeeperOK, AtRest
<1>7. PendingGiven'
  BY <1>3, <1>4 DEF PendingGiven
<1>8. \A j \in KeyIds : keys'[j] = IF j = k THEN result ELSE keys[j]
  BY <1>2 DEF KeyTypeOK
<1>9. KeysAreGiven'
  BY <1>1, <1>3, <1>8 DEF KeysAreGiven, PendingGiven
<1>10. BarredForGood'
  <2> SUFFICES ASSUME NEW j \in KeyIds, barred'[j]
               PROVE  /\ keys'[j].status # "trusted"
                      /\ keys'[j].status # "absent"
                      /\ \A v \in Keepers : keeper'[v].id = j => keeper'[v].record.status # "trusted"
    BY DEF BarredForGood
  <2>1. CASE j # k
    <3>1. barred[j]
      BY <1>3, <2>1 DEF KeyTypeOK
    <3>2. QED
      BY <1>4, <1>8, <2>1, <3>1 DEF BarredForGood
  <2>2. CASE j = k
    <3>1. barred[k] \/ (record.status = "revoked" /\ ~BeingTrusted(k, w))
      BY <1>1, <1>3, <2>2 DEF KeyTypeOK
    <3>2. record.status # "trusted"
      BY <1>1, <3>1 DEF BarredForGood
    <3>3. \A v \in Keepers \ {w} : keeper[v].id = k => keeper[v].record.status # "trusted"
      BY <1>1, <3>1 DEF BarredForGood, BeingTrusted
    <3>4. keys'[k].status # "trusted" /\ keys'[k].status # "absent"
      BY <1>1, <1>8, <3>2
    <3>5. QED
      BY <1>4, <2>2, <3>3, <3>4
  <2>3. QED
    BY <2>1, <2>2
<1>11. QED
  BY <1>5, <1>6, <1>7, <1>9, <1>10

LEMMA DeathStep ==
  ASSUME KeyIInv, NEW w \in Keepers, KeeperDies(w)
  PROVE  KeyIInv'
<1> USE KeyFileTypes DEF KeyIInv
<1>1. /\ keeper' = [keeper EXCEPT ![w] = AtRest]
      /\ keyFaults < MaxKeyFaults /\ keyFaults' = keyFaults + 1
      /\ keys' = keys /\ keyCommands' = keyCommands /\ given' = given /\ barred' = barred
      /\ keeper[w] # AtRest
      /\ torn' = IF keeper[w].pc = "write" THEN torn \cup {keeper[w].id} ELSE torn
  BY DEF KeeperDies, keyHistory
<1>2. \A v \in Keepers : keeper'[v] = IF v = w THEN AtRest ELSE keeper[v]
  BY <1>1 DEF KeyTypeOK
<1>3. KeyTypeOK'
  <2>1. keeper[w].pc = "write" => keeper[w].id \in KeyIds
    BY DEF KeeperOK
  <2>2. torn' \subseteq KeyIds
    BY <1>1, <2>1 DEF KeyTypeOK
  <2>3. QED
    BY <1>1, <2>2, BoundsAssumption DEF KeyTypeOK, AtRest
<1>4. \A v \in Keepers : KeeperOK(keeper[v])'
  BY <1>2 DEF KeeperOK, AtRest
<1>5. PendingGiven' /\ KeysAreGiven' /\ BarredForGood'
  BY <1>1, <1>2 DEF PendingGiven, KeysAreGiven, BarredForGood
<1>6. QED
  BY <1>3, <1>4, <1>5

LEMMA NextKeyIInv == KeyIInv /\ [KeyNext]_keyVars => KeyIInv'
<1> SUFFICES ASSUME KeyIInv, [KeyNext]_keyVars
             PROVE  KeyIInv'
  OBVIOUS
<1>1. CASE UNCHANGED keyVars
  BY <1>1 DEF keyVars, keyHistory, KeyIInv, KeyTypeOK, KeeperOK, PendingGiven, KeysAreGiven,
              BarredForGood
<1>2. CASE KeyNext
  <2>1. PICK w \in Keepers :
          \/ \E k \in KeyIds :
               \/ revoke_trusted_key(w, k)
               \/ \E p \in PublicKeys, force \in BOOLEAN : trust_key_file(w, k, p, force)
          \/ ReadRecord(w) \/ OpenRecord(w) \/ WriteRecord(w) \/ KeeperDies(w)
    BY <1>2 DEF KeyNext
  <2>2. QED
    BY <2>1, TrustStep, RevokeStep, ReadStep, OpenStep, WriteStep, DeathStep
<1>3. QED
  BY <1>1, <1>2

LEMMA KeyInvariance == KeySpec => []KeyIInv
  BY InitKeyIInv, NextKeyIInv, PTL DEF KeySpec

(***************************************************************************)
(* Every variable keeps its type: no step of trust_key_file or             *)
(* revoke_trusted_key leaves a key file that is neither a record, nor      *)
(* absent, empty or garbled, nor a command without its key.                *)
(***************************************************************************)
THEOREM KeyTypeCorrect == KeySpec => []KeyTypeOK
<1>1. KeyIInv => KeyTypeOK
  BY DEF KeyIInv
<1>2. QED
  BY <1>1, KeyInvariance, PTL

(***************************************************************************)
(* A revocation reported done is never undone but by a forced trust, and   *)
(* every record names a key that was given for it: core of                 *)
(* SiteMapRegistry.trust_key_file and revoke_trusted_key.                  *)
(***************************************************************************)
THEOREM RevocationHolds == KeySpec => []RevocationSticks
<1>1. KeyIInv => RevocationSticks
  BY DEF KeyIInv, BarredForGood, RevocationSticks
<1>2. QED
  BY <1>1, KeyInvariance, PTL

(***************************************************************************)
(* No record names a public key that was not given for its key_id.         *)
(***************************************************************************)
THEOREM KeysGiven == KeySpec => []KeysAreGiven
<1>1. KeyIInv => KeysAreGiven
  BY DEF KeyIInv
<1>2. QED
  BY <1>1, KeyInvariance, PTL

-------------------------------------------------------------------------------
(***************************************************************************)
(* Where an import is.                                                     *)
(***************************************************************************)
ImporterOK(s) ==
  /\ s = Import(s.pc, s.maps, s.at, s.source)
  /\ s.pc \in {"idle", "list", "copy", "data"}
  /\ s.pc \in {"idle", "list"} => s = Import(s.pc, <<>>, 1, NoFile)
  /\ s.pc \in {"copy", "data"} => s.maps \in Seq(AllMaps) /\ s.at \in 1 .. Len(s.maps)
  /\ s.pc = "data" <=> s.source # NoFile

PInv ==
  /\ importer = [w \in Importers |-> importer[w]]
  /\ \A w \in Importers : ImporterOK(importer[w])
  /\ \E v \in Versions : manifest = v.manifest
  /\ imports \in 0 .. MaxImports /\ edits \in 0 .. MaxEdits
  /\ importFaults \in 0 .. MaxImportFaults
  /\ verdict \in {"none", "ok", "failed"}
  /\ KeyIInv

(***************************************************************************)
(* The stages an import can be put in.                                     *)
(***************************************************************************)
LEMMA StepsOK ==
  /\ Waiting = Import("idle", <<>>, 1, NoFile)
  /\ ImporterOK(Waiting)
  /\ ImporterOK(Import("list", <<>>, 1, NoFile))
  /\ \A maps \in Seq(AllMaps) : \A at \in 1 .. Len(maps) :
       /\ ImporterOK(Import("copy", maps, at, NoFile))
       /\ \A source : source # NoFile => ImporterOK(Import("data", maps, at, source))
<1>1. Waiting = Import("idle", <<>>, 1, NoFile)
  BY DEF Waiting
<1>2. QED
  BY <1>1 DEF ImporterOK, Import

(***************************************************************************)
(* What one import does to itself, with the key store and the directory    *)
(* left alone.                                                             *)
(***************************************************************************)
LEMMA OneImporterOK ==
  ASSUME PInv, NEW w \in Importers, NEW s, importer' = [importer EXCEPT ![w] = s], ImporterOK(s),
         UNCHANGED <<directory, edits, verdict, keyVars>>,
         imports' \in 0 .. MaxImports, importFaults' \in 0 .. MaxImportFaults
  PROVE  PInv'
<1>1. importer' = [v \in Importers |-> IF v = w THEN s ELSE importer[v]]
  BY DEF PInv
<1>2. KeyIInv'
  BY NextKeyIInv DEF PInv
<1>3. QED
  BY <1>1, <1>2 DEF PInv, directory

\* The part of an import that leaves the directory, the verdict and the keys alone.
Aside == UNCHANGED <<directory, edits, verdict, disturbed, keyVars>>

\* What an import begins as, and goes on as.
LEMMA ImportMoves ==
  ASSUME PInv, NEW w \in Importers,
         \/ \E map \in MapsOf(manifest) : import_community_map_file(w, map)
         \/ import_package_directory(w)
         \/ ReadManifest(w) \/ OpenCopy(w) \/ CopyData(w) \/ ImporterDies(w)
  PROVE  /\ Aside
         /\ imports' \in 0 .. MaxImports /\ importFaults' \in 0 .. MaxImportFaults
         /\ \E s : importer' = [importer EXCEPT ![w] = s] /\ ImporterOK(s)
<1> PICK v \in Versions : manifest = v.manifest
  BY DEF PInv
<1> PICK old : old = importer[w]
  OBVIOUS
<1>1. manifest.maps \in Seq(AllMaps) /\ MapsOf(manifest) \subseteq AllMaps /\ ImporterOK(old)
  BY VersionsAssumption DEF AllMaps, PInv
<1>2. CASE \E map \in MapsOf(manifest) : import_community_map_file(w, map)
  <2>1. PICK map \in MapsOf(manifest) : import_community_map_file(w, map)
    BY <1>2
  <2> PICK maps : maps = <<map>>
    OBVIOUS
  <2>2. maps \in Seq(AllMaps) /\ 1 \in 1 .. Len(maps)
    BY <1>1
  <2>3. ImporterOK(Import("copy", maps, 1, NoFile))
    BY <2>2, StepsOK
  <2>4. QED
    BY <2>1, <2>3, ImportBoundsAssumption DEF import_community_map_file, BeginImport, Aside, PInv
<1>3. CASE import_package_directory(w)
  BY <1>3, StepsOK, ImportBoundsAssumption DEF import_package_directory, BeginImport, Aside, PInv
<1>4. CASE ReadManifest(w)
  <2>1. manifest.maps # <<>> => ImporterOK(Import("copy", manifest.maps, 1, NoFile))
    <3>1. manifest.maps # <<>> => 1 \in 1 .. Len(manifest.maps)
      BY <1>1
    <3>2. QED
      BY <1>1, <3>1, StepsOK
  <2>2. QED
    BY <1>4, <2>1, StepsOK DEF ReadManifest, Aside, PInv
<1>5. CASE OpenCopy(w)
  <2>1. old.pc = "copy" /\ old.maps \in Seq(AllMaps) /\ old.at \in 1 .. Len(old.maps)
    BY <1>1, <1>5 DEF OpenCopy, ImporterOK
  <2>2. \A source : source # NoFile => ImporterOK(Import("data", old.maps, old.at, source))
    BY <2>1, StepsOK
  <2>3. QED
    BY <1>5, <2>2, StepsOK DEF OpenCopy, Aside, PInv
<1>6. CASE CopyData(w)
  <2>1. old.maps \in Seq(AllMaps) /\ old.at \in 1 .. Len(old.maps)
    BY <1>1, <1>6 DEF CopyData, ImporterOK
  <2>2. old.at # Len(old.maps) => ImporterOK(Import("copy", old.maps, old.at + 1, NoFile))
    BY <2>1, StepsOK
  <2>3. QED
    BY <1>6, <2>2, StepsOK DEF CopyData, Aside, PInv
<1>7. CASE ImporterDies(w)
  BY <1>7, StepsOK, ImportBoundsAssumption DEF ImporterDies, Aside, PInv
<1>8. QED
  BY <1>2, <1>3, <1>4, <1>5, <1>6, <1>7

LEMMA InitPInv == Init => PInv
BY StepsOK, InitKeyIInv, ImportBoundsAssumption DEF Init, PInv

LEMMA NextPInv == PInv /\ [Next]_allVars => PInv'
<1> SUFFICES ASSUME PInv, [Next]_allVars PROVE PInv'
  OBVIOUS
<1>1. CASE UNCHANGED allVars
  BY <1>1, NextKeyIInv DEF allVars, mapsVars, directory, PInv
<1>2. ASSUME NEW w \in Importers,
             \/ \E map \in MapsOf(manifest) : import_community_map_file(w, map)
             \/ import_package_directory(w)
             \/ ReadManifest(w) \/ OpenCopy(w) \/ CopyData(w) \/ ImporterDies(w)
      PROVE  PInv'
  BY <1>2, ImportMoves, OneImporterOK DEF Aside
<1>3. CASE verify_package_directory
  BY <1>3, NextKeyIInv DEF verify_package_directory, directory, PInv
<1>4. ASSUME NEW v \in Versions, Edit(v) PROVE PInv'
  <2>1. (\E x \in Versions : manifest' = x.manifest) /\ edits' \in 0 .. MaxEdits
    BY <1>4, ImportBoundsAssumption DEF Edit, PInv
  <2>2. KeyIInv'
    BY <1>4, NextKeyIInv DEF Edit, PInv
  <2>3. QED
    BY <1>4, <2>1, <2>2 DEF Edit, PInv
<1>5. CASE KeyStep
  BY <1>5, NextKeyIInv DEF KeyStep, directory, PInv
<1>6. QED
  BY <1>1, <1>2, <1>3, <1>4, <1>5 DEF Next

LEMMA AlwaysPInv == Spec => []PInv
BY InitPInv, NextPInv, PTL DEF Spec

(***************************************************************************)
(* Every variable keeps its type, and no import goes past its last map.    *)
(***************************************************************************)
THEOREM MapsTypeCorrect == Spec => []TypeOK
<1>1. ASSUME NEW s, ImporterOK(s)
      PROVE  /\ s.pc \in {"idle", "list", "copy", "data"}
             /\ s.pc = "data" <=> s.source # NoFile
             /\ s.pc \in {"copy", "data"} <=> s.at \in DOMAIN s.maps
  <2>1. CASE s.pc \in {"idle", "list"}
    <3>1. s.maps = <<>> /\ s.at = 1
      BY <1>1, <2>1 DEF ImporterOK, Import
    <3>2. s.at \notin DOMAIN s.maps
      BY <3>1
    <3>3. QED
      BY <1>1, <2>1, <3>2 DEF ImporterOK
  <2>2. CASE s.pc \in {"copy", "data"}
    BY <1>1, <2>2 DEF ImporterOK
  <2>3. QED
    BY <1>1, <2>1, <2>2 DEF ImporterOK
<1>2. PInv => TypeOK
  BY <1>1 DEF PInv, TypeOK
<1>3. QED
  BY <1>2, AlwaysPInv, PTL

-------------------------------------------------------------------------------
(***************************************************************************)
(* As long as the directory does not change under an import, what a copy   *)
(* is about to write is what was checked when it began: the checksums are  *)
(* those of the files, and the second reading of the manifest is that of   *)
(* the first.                                                              *)
(***************************************************************************)
Vouched(s, m, fs, known) ==
  /\ s.pc = "list" => \A map \in MapsOf(m) : <<map.name, fs[map.path]>> \in known
  /\ s.pc \in {"copy", "data"} =>
       \A i \in DOMAIN s.maps : <<s.maps[i].name, fs[s.maps[i].path]>> \in known
  /\ s.pc = "data" => s.source = fs[s.maps[s.at].path]

ImportedOK(imp, known) ==
  /\ imp = [n \in Names |-> imp[n]]
  /\ \A n \in Names : imp[n] \in {NoFile, Partial} \/ <<n, imp[n]>> \in known

CInv == ~disturbed => /\ \A w \in Importers : Vouched(importer[w], manifest, files, checked)
                      /\ ImportedOK(imported, checked)

LEMMA WaitingVouched == \A m, fs, known : Vouched(Waiting, m, fs, known)
BY DEF Vouched, Waiting, Import

LEMMA VouchedStays ==
  ASSUME NEW known, NEW more, known \subseteq more
  PROVE  /\ \A s, m, fs : Vouched(s, m, fs, known) => Vouched(s, m, fs, more)
         /\ \A imp : ImportedOK(imp, known) => ImportedOK(imp, more)
<1>1. \A s, m, fs : Vouched(s, m, fs, known) => Vouched(s, m, fs, more)
  BY DEF Vouched
<1>2. \A imp : ImportedOK(imp, known) => ImportedOK(imp, more)
  <2> SUFFICES ASSUME NEW imp, ImportedOK(imp, known) PROVE ImportedOK(imp, more)
    OBVIOUS
  <2>1. imp = [n \in Names |-> imp[n]]
    BY DEF ImportedOK
  <2>2. \A n \in Names : imp[n] \in {NoFile, Partial} \/ <<n, imp[n]>> \in more
    BY DEF ImportedOK
  <2>3. QED
    BY <2>1, <2>2 DEF ImportedOK
<1>3. QED
  BY <1>1, <1>2

\* One file of community-maps written.
LEMMA ImportedChange ==
  ASSUME NEW known, NEW imp, ImportedOK(imp, known), NEW name, NEW content,
         content = Partial \/ <<name, content>> \in known
  PROVE  ImportedOK([imp EXCEPT ![name] = content], known)
<1> PICK new : new = [imp EXCEPT ![name] = content]
  OBVIOUS
<1>1. new = [n \in Names |-> IF n = name THEN content ELSE imp[n]]
  BY DEF ImportedOK
<1>2. QED
  BY <1>1 DEF ImportedOK

LEMMA OneImporterVouched ==
  ASSUME PInv, CInv, NEW w \in Importers, NEW s, importer' = [importer EXCEPT ![w] = s], Aside,
         checked \subseteq checked',
         ~disturbed => Vouched(s, manifest, files, checked') /\ ImportedOK(imported', checked')
  PROVE  CInv'
<1>1. importer' = [v \in Importers |-> IF v = w THEN s ELSE importer[v]]
  BY DEF PInv
<1>2. QED
  BY <1>1, VouchedStays DEF CInv, Aside, directory

(***************************************************************************)
(* An import begins with everything it will copy checked.                  *)
(***************************************************************************)
LEMMA BeginningVouched ==
  ASSUME PInv, CInv, NEW w \in Importers,
         \/ \E map \in MapsOf(manifest) : import_community_map_file(w, map)
         \/ import_package_directory(w)
  PROVE  CInv'
<1>1. Aside /\ checked \subseteq checked' /\ imported' = imported
  BY ImportMoves DEF import_community_map_file, import_package_directory, BeginImport
<1>2. ~disturbed => ImportedOK(imported', checked')
  BY <1>1, VouchedStays DEF CInv
<1>3. CASE \E map \in MapsOf(manifest) : import_community_map_file(w, map)
  <2>1. PICK map \in MapsOf(manifest) : import_community_map_file(w, map)
    BY <1>3
  <2> PICK maps : maps = <<map>>
    OBVIOUS
  <2>2. <<map.name, files[map.path]>> \in checked'
    BY <2>1 DEF import_community_map_file, validate_community_map_file, BeginImport
  <2>3. DOMAIN maps = {1} /\ maps[1] = map
    OBVIOUS
  <2>4. Vouched(Import("copy", maps, 1, NoFile), manifest, files, checked')
    BY <2>2, <2>3 DEF Vouched, Import
  <2>5. importer' = [importer EXCEPT ![w] = Import("copy", maps, 1, NoFile)]
    BY <2>1 DEF import_community_map_file, BeginImport
  <2>6. QED
    BY <1>1, <1>2, <2>4, <2>5, OneImporterVouched
<1>4. CASE import_package_directory(w)
  <2>1. \A map \in MapsOf(manifest) : <<map.name, files[map.path]>> \in checked'
    BY <1>4 DEF import_package_directory, BeginImport, validate_manifest_file,
       verify_manifest_checksums
  <2>2. Vouched(Import("list", <<>>, 1, NoFile), manifest, files, checked')
    BY <2>1 DEF Vouched, Import
  <2>3. QED
    BY <1>1, <1>2, <1>4, <2>2, OneImporterVouched DEF import_package_directory, BeginImport
<1>5. QED
  BY <1>3, <1>4

LEMMA GoingVouched ==
  ASSUME PInv, CInv, NEW w \in Importers,
         ReadManifest(w) \/ OpenCopy(w) \/ CopyData(w) \/ ImporterDies(w)
  PROVE  CInv'
<1>1. Aside /\ checked' = checked
  BY ImportMoves DEF ReadManifest, OpenCopy, CopyData, ImporterDies
<1> PICK old : old = importer[w]
  OBVIOUS
<1>2. ImporterOK(old)
  BY DEF PInv
<1> SUFFICES ASSUME ~disturbed PROVE CInv'
  BY <1>1 DEF Aside, CInv
<1>3. Vouched(old, manifest, files, checked) /\ ImportedOK(imported, checked)
  BY DEF CInv
<1>4. CASE ReadManifest(w)
  <2>1. \A i \in DOMAIN manifest.maps :
          <<manifest.maps[i].name, files[manifest.maps[i].path]>> \in checked
    BY <1>3, <1>4 DEF ReadManifest, Vouched, MapsOf
  <2>2. Vouched(Import("copy", manifest.maps, 1, NoFile), manifest, files, checked)
    BY <2>1 DEF Vouched, Import
  <2>3. imported' = imported
        /\ \/ importer' = [importer EXCEPT ![w] = Waiting]
           \/ importer' = [importer EXCEPT ![w] = Import("copy", manifest.maps, 1, NoFile)]
    BY <1>4 DEF ReadManifest
  <2>4. QED
    BY <1>1, <1>3, <2>2, <2>3, WaitingVouched, OneImporterVouched
<1>5. CASE OpenCopy(w)
  <2>1. PICK source : source = files[old.maps[old.at].path]
    OBVIOUS
  <2>2. old.pc = "copy"
    BY <1>5 DEF OpenCopy
  <2>3. Vouched(Import("data", old.maps, old.at, source), manifest, files, checked)
    BY <1>3, <2>1, <2>2 DEF Vouched, Import
  <2>4. PICK name :
          \/ importer' = [importer EXCEPT ![w] = Waiting] /\ imported' = imported
          \/ importer' = [importer EXCEPT ![w] = Import("data", old.maps, old.at, source)]
             /\ imported' = [imported EXCEPT ![name] = Partial]
    BY <1>5, <2>1 DEF OpenCopy, CurrentMap
  <2>5. ImportedOK([imported EXCEPT ![name] = Partial], checked)
    BY <1>3, ImportedChange
  <2>6. QED
    BY <1>1, <1>3, <2>3, <2>4, <2>5, WaitingVouched, OneImporterVouched
<1>6. CASE CopyData(w)
  <2>1. PICK map : map = old.maps[old.at]
    OBVIOUS
  <2>2. old.pc = "data" /\ old.at \in DOMAIN old.maps
    BY <1>2, <1>6 DEF CopyData, ImporterOK
  <2>3. old.source = files[map.path] /\ <<map.name, files[map.path]>> \in checked
    BY <1>3, <2>1, <2>2 DEF Vouched
  <2>4. PICK content \in {old.source, files[map.path], Partial} :
          imported' = [imported EXCEPT ![map.name] = content]
    BY <1>6, <2>1 DEF CopyData, CurrentMap
  <2>5. ImportedOK(imported', checked)
    BY <1>3, <2>3, <2>4, ImportedChange
  <2>6. Vouched(Import("copy", old.maps, old.at + 1, NoFile), manifest, files, checked)
    BY <1>3, <2>2 DEF Vouched, Import
  <2>7. \/ importer' = [importer EXCEPT ![w] = Waiting]
        \/ importer' = [importer EXCEPT ![w] = Import("copy", old.maps, old.at + 1, NoFile)]
    BY <1>6 DEF CopyData
  <2>8. QED
    BY <1>1, <2>5, <2>6, <2>7, WaitingVouched, OneImporterVouched
<1>7. CASE ImporterDies(w)
  BY <1>1, <1>3, <1>7, WaitingVouched, OneImporterVouched DEF ImporterDies
<1>8. QED
  BY <1>4, <1>5, <1>6, <1>7

LEMMA InitCInv == Init => CInv
BY WaitingVouched DEF Init, CInv, ImportedOK

LEMMA NextCInv == PInv /\ CInv /\ [Next]_allVars => CInv'
<1> SUFFICES ASSUME PInv, CInv, [Next]_allVars PROVE CInv'
  OBVIOUS
<1>1. CASE UNCHANGED <<directory, imported, importer, checked, disturbed>>
  BY <1>1 DEF directory, CInv
<1>2. CASE UNCHANGED allVars \/ verify_package_directory \/ KeyStep
  BY <1>1, <1>2 DEF allVars, mapsVars, verify_package_directory, KeyStep
<1>3. ASSUME NEW v \in Versions, Edit(v) PROVE CInv'
  <2> SUFFICES ASSUME ~disturbed' PROVE CInv'
    BY DEF CInv
  <2>1. ~disturbed /\ (\A w \in Importers : importer[w] = Waiting)
        /\ UNCHANGED <<importer, imported, checked>>
    BY <1>3 DEF Edit
  <2>2. QED
    BY <2>1, WaitingVouched DEF CInv
<1>4. QED
  BY <1>2, <1>3, BeginningVouched, GoingVouched DEF Next

(***************************************************************************)
(* maps/registry.py, the imports: what lies whole in community-maps was    *)
(* checked there and then, through deaths, several imports at a time and   *)
(* changes of the source between imports.                                  *)
(***************************************************************************)
THEOREM ImportsAreChecked == Spec => []ImportedWasChecked
<1>1. CInv => ImportedWasChecked
  BY DEF CInv, ImportedOK, ImportedWasChecked
<1>2. QED
  BY <1>1, InitPInv, InitCInv, NextPInv, NextCInv, PTL DEF Spec

-------------------------------------------------------------------------------
(***************************************************************************)
(* `package verify` and the key store.  A torn or a half-written file is   *)
(* one the lookup does not find, and a key that is not found is no reason  *)
(* to refuse.  That is the only way past a revocation, whoever dies or     *)
(* writes at the same time: a package that passed, passed because the      *)
(* record of its key was lost, or was being written.                       *)
(***************************************************************************)
LEMMA VerifyLacksRecord ==
  ASSUME PInv, verify_package_directory
  PROVE  PassedForLack'
<1> SUFFICES ASSUME verdict' = "ok", manifest'.key_id # NoKey, barred'[manifest'.key_id]
             PROVE  keys'[manifest'.key_id] \in {EmptyFile, GarbledFile}
  BY DEF PassedForLack
<1> PICK k : k = manifest.key_id
  OBVIOUS
<1>1. manifest' = manifest /\ barred' = barred /\ keys' = keys /\ package_ok
  BY DEF verify_package_directory, directory, keyVars, keyHistory
<1>2. k \in KeyIds /\ barred[k]
  BY <1>1, VersionsAssumption DEF PInv
<1>3. keys[k] \in KeyFiles /\ keys[k] # AbsentFile
  BY <1>2, KeyFileTypes DEF PInv, KeyIInv, KeyTypeOK, BarredForGood
<1>4. ASSUME keys[k] \in Records PROVE FALSE
  <2>1. keys[k].status = "revoked"
    BY <1>2, <1>4, KeyFileTypes DEF PInv, KeyIInv, BarredForGood
  <2>2. trusted_key_status = "revoked"
    BY <1>1, <1>2, <1>4, <2>1 DEF trusted_key_status, inspect_trusted_key
  <2>3. QED
    BY <1>1, <2>2 DEF package_ok
<1>5. QED
  BY <1>1, <1>3, <1>4 DEF KeyFiles

LEMMA NextPassedForLack == PInv /\ PassedForLack /\ [Next]_allVars => PassedForLack'
<1> SUFFICES ASSUME PInv, PassedForLack, [Next]_allVars PROVE PassedForLack'
  OBVIOUS
<1>1. CASE UNCHANGED <<verdict, manifest, keyVars>>
  BY <1>1 DEF keyVars, keyHistory, PassedForLack
<1>2. CASE verify_package_directory
  BY <1>2, VerifyLacksRecord
<1>3. CASE KeyStep
  BY <1>3 DEF KeyStep, PassedForLack
<1>4. ASSUME NEW v \in Versions, Edit(v) PROVE PassedForLack'
  BY <1>4 DEF Edit, PassedForLack
<1>5. ASSUME NEW w \in Importers,
             \/ \E map \in MapsOf(manifest) : import_community_map_file(w, map)
             \/ import_package_directory(w)
             \/ ReadManifest(w) \/ OpenCopy(w) \/ CopyData(w) \/ ImporterDies(w)
      PROVE  PassedForLack'
  BY <1>1, <1>5, ImportMoves DEF Aside, directory
<1>6. CASE UNCHANGED allVars
  BY <1>1, <1>6 DEF allVars, mapsVars, directory
<1>7. QED
  BY <1>2, <1>3, <1>4, <1>5, <1>6 DEF Next

(***************************************************************************)
(* maps/registry.py, `package verify`: through any deaths and races in the *)
(* key store, and in the middle of them, a package that names a revoked    *)
(* key passes only while there is no record of that key to be found.       *)
(***************************************************************************)
THEOREM OnlyLostRecordsPass == Spec => []PassedForLack
<1>1. Init => PassedForLack
  BY DEF Init, PassedForLack
<1>2. QED
  BY <1>1, InitPInv, NextPInv, NextPassedForLack, PTL DEF Spec

-------------------------------------------------------------------------------
(***************************************************************************)
(* A record is lost when a command dies in the middle of writing it, or    *)
(* two write it at once: the file of any other key is whole, or empty with *)
(* exactly one command about to fill it.                                   *)
(***************************************************************************)
Whole(k) == keys[k] \in Records \cup {AbsentFile}

WInv ==
  \A k \in KeyIds \ torn :
    /\ Whole(k) \/ BeingWritten(k)
    /\ BeingWritten(k) => keys[k] = EmptyFile
    /\ \A v, w \in Keepers :
         /\ keeper[v].pc = "write" /\ keeper[v].id = k
         /\ keeper[w].pc = "write" /\ keeper[w].id = k
         => v = w

\* A step that is not a write, of a command that was not writing, changes no file.
LEMMA WholeAside ==
  ASSUME KeyIInv, WInv, NEW w \in Keepers, keeper[w].pc # "write", keys' = keys, torn' = torn,
         NEW step, keeper' = [keeper EXCEPT ![w] = step], step.pc # "write"
  PROVE  WInv'
<1>1. \A x \in Keepers : keeper'[x] = IF x = w THEN step ELSE keeper[x]
  BY DEF KeyIInv, KeyTypeOK
<1>2. QED
  BY <1>1 DEF WInv, Whole, BeingWritten

LEMMA OpensWhole ==
  ASSUME KeyIInv, WInv, NEW w \in Keepers, OpenRecord(w)
  PROVE  WInv'
<1>1. keeper[w].pc = "open" /\ keeper[w].id \in KeyIds
  BY DEF OpenRecord, KeyIInv, KeeperOK
<1>2. /\ keeper'[w].pc = "write" /\ keeper'[w].id = keeper[w].id
      /\ \A x \in Keepers \ {w} : keeper'[x] = keeper[x]
      /\ \A k \in KeyIds : keys'[k] = IF k = keeper[w].id THEN EmptyFile ELSE keys[k]
  BY <1>1 DEF OpenRecord, KeyIInv, KeyTypeOK
<1>3. torn' = torn \cup {k \in {keeper[w].id} : BeingWritten(k)}
  BY DEF OpenRecord
<1> SUFFICES ASSUME NEW k \in KeyIds \ torn'
             PROVE  /\ Whole(k)' \/ BeingWritten(k)'
                    /\ BeingWritten(k)' => keys'[k] = EmptyFile
                    /\ \A u, v \in Keepers :
                         /\ keeper'[u].pc = "write" /\ keeper'[u].id = k
                         /\ keeper'[v].pc = "write" /\ keeper'[v].id = k
                         => u = v
  BY DEF WInv
<1>4. CASE k = keeper[w].id
  <2>1. ~BeingWritten(k)
    BY <1>3, <1>4
  <2>2. QED
    BY <1>2, <1>4, <2>1 DEF BeingWritten
<1>5. CASE k # keeper[w].id
  <2>1. BeingWritten(k)' <=> BeingWritten(k)
    BY <1>1, <1>2, <1>5 DEF BeingWritten
  <2>2. k \notin torn
    BY <1>3
  <2>3. QED
    BY <1>2, <1>5, <2>1, <2>2 DEF WInv, Whole
<1>6. QED
  BY <1>4, <1>5

LEMMA WritesWhole ==
  ASSUME KeyIInv, WInv, NEW w \in Keepers, WriteRecord(w)
  PROVE  WInv'
<1>1. /\ keeper[w].pc = "write" /\ keeper[w].id \in KeyIds /\ keeper[w].record \in Records
      /\ torn' = torn
  BY DEF WriteRecord, KeyIInv, KeyTypeOK, KeeperOK
<1>2. PICK result \in {keeper[w].record, GarbledFile} :
        /\ keys[keeper[w].id] = EmptyFile => result = keeper[w].record
        /\ keys' = [keys EXCEPT ![keeper[w].id] = result]
  BY DEF WriteRecord
<1>3. \A k \in KeyIds : keys'[k] = IF k = keeper[w].id THEN result ELSE keys[k]
  BY <1>2 DEF KeyIInv, KeyTypeOK
<1>4. keeper'[w].pc = "idle" /\ \A x \in Keepers \ {w} : keeper'[x] = keeper[x]
  BY KeyFileTypes DEF WriteRecord, KeyIInv, KeyTypeOK
<1> SUFFICES ASSUME NEW k \in KeyIds \ torn
             PROVE  /\ Whole(k)' \/ BeingWritten(k)'
                    /\ BeingWritten(k)' => keys'[k] = EmptyFile
                    /\ \A u, v \in Keepers :
                         /\ keeper'[u].pc = "write" /\ keeper'[u].id = k
                         /\ keeper'[v].pc = "write" /\ keeper'[v].id = k
                         => u = v
  BY <1>1 DEF WInv
<1>5. CASE k = keeper[w].id
  <2>1. BeingWritten(k) /\ keys[k] = EmptyFile
    BY <1>1, <1>5 DEF WInv, BeingWritten
  <2>2. Whole(k)'
    BY <1>1, <1>2, <1>3, <1>5, <2>1 DEF Whole
  <2>3. ~BeingWritten(k)'
    BY <1>1, <1>4, <1>5 DEF WInv, BeingWritten
  <2>4. QED
    BY <2>2, <2>3 DEF BeingWritten
<1>6. CASE k # keeper[w].id
  <2>1. BeingWritten(k)' <=> BeingWritten(k)
    BY <1>1, <1>4, <1>6 DEF BeingWritten
  <2>2. QED
    BY <1>3, <1>4, <1>6, <2>1 DEF WInv, Whole
<1>7. QED
  BY <1>5, <1>6

LEMMA DiesWhole ==
  ASSUME KeyIInv, WInv, NEW w \in Keepers, KeeperDies(w)
  PROVE  WInv'
<1>1. keys' = keys /\ torn' = IF keeper[w].pc = "write" THEN torn \cup {keeper[w].id} ELSE torn
  BY DEF KeeperDies
<1>2. keeper'[w].pc = "idle" /\ \A x \in Keepers \ {w} : keeper'[x] = keeper[x]
  BY KeyFileTypes DEF KeeperDies, KeyIInv, KeyTypeOK
<1>3. \A k \in KeyIds \ torn' : k \notin torn /\ (BeingWritten(k)' <=> BeingWritten(k))
  BY <1>1, <1>2 DEF BeingWritten
<1>4. QED
  BY <1>1, <1>2, <1>3 DEF WInv, Whole

LEMMA WholeKeysStep ==
  ASSUME KeyIInv, WInv, KeyNext
  PROVE  WInv'
<1> USE KeyFileTypes
<1>1. PICK w \in Keepers :
        \/ \E k \in KeyIds :
             \/ revoke_trusted_key(w, k)
             \/ \E p \in PublicKeys, force \in BOOLEAN : trust_key_file(w, k, p, force)
        \/ ReadRecord(w) \/ OpenRecord(w) \/ WriteRecord(w) \/ KeeperDies(w)
  BY DEF KeyNext
<1>2. CASE \E k \in KeyIds :
             \/ revoke_trusted_key(w, k)
             \/ \E p \in PublicKeys, force \in BOOLEAN : trust_key_file(w, k, p, force)
  <2>1. PICK step : keeper' = [keeper EXCEPT ![w] = step] /\ step.pc \in {"read", "open"}
                    /\ keeper[w] = AtRest /\ keys' = keys /\ torn' = torn
    BY <1>2 DEF revoke_trusted_key, trust_key_file, BeginKeyCommand
  <2>2. QED
    BY <2>1, WholeAside
<1>3. CASE ReadRecord(w)
  <2>1. PICK step : keeper' = [keeper EXCEPT ![w] = step] /\ step.pc \in {"open", "idle"}
                    /\ keeper[w].pc = "read" /\ keys' = keys /\ torn' = torn
    BY <1>3 DEF ReadRecord
  <2>2. QED
    BY <2>1, WholeAside
<1>4. QED
  BY <1>1, <1>2, <1>3, OpensWhole, WritesWhole, DiesWhole

LEMMA InitWInv == Init => WInv
BY KeyFileTypes DEF Init, KeyInit, WInv, Whole, BeingWritten

LEMMA NextWInv == PInv /\ WInv /\ [Next]_allVars => WInv'
<1> SUFFICES ASSUME PInv, WInv, [Next]_allVars PROVE WInv'
  OBVIOUS
<1>1. CASE UNCHANGED keyVars
  BY <1>1 DEF keyVars, WInv, Whole, BeingWritten
<1>2. CASE KeyStep
  BY <1>2, WholeKeysStep DEF KeyStep, PInv
<1>3. CASE verify_package_directory \/ (\E v \in Versions : Edit(v)) \/ UNCHANGED allVars
  BY <1>1, <1>3 DEF verify_package_directory, Edit, allVars
<1>4. ASSUME NEW w \in Importers,
             \/ \E map \in MapsOf(manifest) : import_community_map_file(w, map)
             \/ import_package_directory(w)
             \/ ReadManifest(w) \/ OpenCopy(w) \/ CopyData(w) \/ ImporterDies(w)
      PROVE  WInv'
  BY <1>1, <1>4, ImportMoves DEF Aside
<1>5. QED
  BY <1>2, <1>3, <1>4 DEF Next

(***************************************************************************)
(* What was passed although its key is barred was passed for lack of a     *)
(* record, and a record is lacking only where a write was cut short, met   *)
(* another, or is under way.                                               *)
(***************************************************************************)
LEMMA LackIsTorn == PInv /\ WInv /\ PassedForLack => VerifyRejectsRevoked
<1> SUFFICES ASSUME PInv, WInv, PassedForLack, verdict = "ok",
                    NEW k, k = manifest.key_id, k # NoKey, k \notin torn, ~BeingWritten(k)
             PROVE  ~barred[k]
  BY DEF VerifyRejectsRevoked
<1>1. k \in KeyIds
  BY VersionsAssumption DEF PInv
<1>2. Whole(k)
  BY <1>1 DEF WInv
<1>3. keys[k] \notin {EmptyFile, GarbledFile}
  BY <1>2, KeyFileTypes DEF Whole, AbsentFile, EmptyFile, GarbledFile, Record
<1>4. QED
  BY <1>3 DEF PassedForLack

(***************************************************************************)
(* maps/registry.py, `package verify`: no package that names a revoked key *)
(* passes, whatever sequence of trust, forced trust and revoke came before *)
(* and is under way, of any number of processes, and whatever is imported  *)
(* and edited meanwhile; but for a key whose file is being written just    *)
(* then, or was left torn by a death or by two that wrote it at once.      *)
(***************************************************************************)
THEOREM RevokedKeysFail == Spec => []VerifyRejectsRevoked
<1>1. Spec => []PInv /\ []WInv
  BY InitPInv, InitWInv, NextPInv, NextWInv, PTL DEF Spec
<1>2. QED
  BY <1>1, OnlyLostRecordsPass, LackIsTorn, PTL

===============================================================================
