---------------------------- MODULE CommunityMaps -----------------------------
(***************************************************************************)
(* Community map files and packages: `maps community import` validates one *)
(* file and copies it, `package import` checks a manifest and the SHA-256  *)
(* checksums of the files it lists and copies those, one by one, and       *)
(* `package verify` checks the same and looks the signing key up in the    *)
(* store of TrustedKeys.  The directory a user imports from goes on        *)
(* changing (a checkout, an editor), imports run beside each other and may *)
(* die, and shutil.copy2 truncates its target before it fills it.          *)
(*                                                                         *)
(* A file's content is [text, valid]: does validate_community_map_file     *)
(* pass it.  A manifest is                                                 *)
(*   [sound, maps, checksums, key_id]                                      *)
(* with sound for all of validate_manifest_file but the checksums, maps a  *)
(* sequence of [path, name] (name is the last part of path), checksums a   *)
(* function from some paths to the content each is the hash of, and key_id *)
(* NoKey when there is no signing block.  A refused command ends without a *)
(* change: that is no step.                                                *)
(***************************************************************************)
EXTENDS TrustedKeys, Sequences

CONSTANTS Importers,      \* processes that import
          Versions,       \* states the publisher's directory takes: [manifest, files]
          Names,          \* the file names in use
          NoFile,         \* the content of a file that is not there
          Partial,        \* the content of a file that is being copied, or was cut short
          MaxImports,     \* bound: import commands
          MaxEdits,       \* bound: changes of the publisher's directory
          MaxImportFaults \* bound: processes that die

VARIABLES manifest, files, \* the publisher's directory
          imported,        \* .runewall/community-maps
          importer,        \* where each import is: the maps it copies, the one it
                           \* is at, and what it opened as its source
          imports, edits, importFaults,
          verdict,         \* the last report of `package verify`
          checked,         \* history: <<name, content>> a checksum of an imported
                           \* package, or a validation, stands for
          disturbed        \* history: the directory changed during an import

directory == <<manifest, files>>
mapsVars  == <<directory, imported, importer, imports, edits, importFaults,
               verdict, checked, disturbed>>
allVars   == <<mapsVars, keyVars>>

-------------------------------------------------------------------------------
MapsOf(m) == {m.maps[i] : i \in DOMAIN m.maps}
AllMaps == UNION {MapsOf(v.manifest) : v \in Versions}

ASSUME VersionsAssumption ==
  \A v \in Versions : /\ v.manifest.maps \in Seq(AllMaps)
                     /\ v.manifest.key_id \in KeyIds \cup {NoKey}
ASSUME ImportBoundsAssumption ==
  MaxImports \in Nat /\ MaxEdits \in Nat /\ MaxImportFaults \in Nat

\* Variant: a map without a checksum is let through.
verify_listed_checksums ==
  \A map \in MapsOf(manifest) :
    map.path \in DOMAIN manifest.checksums => files[map.path] = manifest.checksums[map.path]

verify_manifest_checksums ==
  \A map \in MapsOf(manifest) :
    /\ map.path \in DOMAIN manifest.checksums
    /\ files[map.path] # NoFile
    /\ files[map.path] = manifest.checksums[map.path]

validate_manifest_file == manifest.sound /\ verify_manifest_checksums

validate_community_map_file(path) == files[path] # NoFile /\ files[path].valid

trusted_key_status ==
  IF manifest.key_id = NoKey THEN "not_applicable"
  ELSE IF inspect_trusted_key(manifest.key_id) = {} THEN "key_not_found"
  ELSE keys[manifest.key_id].status

\* Variant: any key that was found will do.
package_ok_if_found == validate_manifest_file /\ trusted_key_status \in
                         {"not_applicable", "key_not_found", "revoked", "trusted"}

package_ok == validate_manifest_file /\ trusted_key_status # "revoked"

\* Where an import is: the maps it copies, the one it is at, the source it opened.
Import(pc, maps, at, source) == [pc |-> pc, maps |-> maps, at |-> at, source |-> source]
Waiting == Import("idle", <<>>, 1, NoFile)

Init ==
  /\ KeyInit
  /\ \E v \in Versions : manifest = v.manifest /\ files = v.files
  /\ imported = [n \in Names |-> NoFile]
  /\ importer = [w \in Importers |-> Waiting]
  /\ imports = 0 /\ edits = 0 /\ importFaults = 0
  /\ verdict = "none"
  /\ checked = {}
  /\ disturbed = FALSE

BeginImport(w, step, passed) ==
  /\ importer[w] = Waiting
  /\ imports < MaxImports /\ imports' = imports + 1
  /\ importer' = [importer EXCEPT ![w] = step]
  /\ checked' = checked \cup passed
  /\ UNCHANGED <<directory, imported, edits, importFaults, verdict, disturbed, keyVars>>

import_community_map_file(w, map) ==
  /\ validate_community_map_file(map.path)
  /\ BeginImport(w, Import("copy", <<map>>, 1, NoFile),
                 {pair \in {<<map.name, files[map.path]>>} : pair[2].valid})

import_package_directory(w) ==
  /\ validate_manifest_file
  /\ BeginImport(w, Import("list", <<>>, 1, NoFile),
                 {<<map.name, manifest.checksums[map.path]>> :
                    map \in {m \in MapsOf(manifest) : m.path \in DOMAIN manifest.checksums}})

\* The manifest is read a second time for the list of maps.
ReadManifest(w) ==
  /\ importer[w].pc = "list"
  /\ importer' = [importer EXCEPT ![w] =
       IF manifest.maps = <<>> THEN Waiting
       ELSE Import("copy", manifest.maps, 1, NoFile)]
  /\ UNCHANGED <<directory, imported, imports, edits, importFaults, verdict, checked,
                 disturbed, keyVars>>

CurrentMap(w) == importer[w].maps[importer[w].at]

\* copy2 raises on a source that is gone, before it touches the target.
OpenCopy(w) ==
  /\ importer[w].pc = "copy"
  /\ LET source == files[CurrentMap(w).path]  step == importer[w] IN
     IF source = NoFile
     THEN importer' = [importer EXCEPT ![w] = Waiting] /\ UNCHANGED imported
     ELSE /\ importer' = [importer EXCEPT ![w] = Import("data", step.maps, step.at, source)]
          /\ imported' = [imported EXCEPT ![CurrentMap(w).name] = Partial]
  /\ UNCHANGED <<directory, imports, edits, importFaults, verdict, checked, disturbed, keyVars>>

\* Variant: the loop goes on past the last map.
CopyDataPastEnd(w) ==
  /\ importer[w].pc = "data"
  /\ imported' = [imported EXCEPT ![CurrentMap(w).name] = files[CurrentMap(w).path]]
  /\ importer' = [importer EXCEPT ![w] =
       IF @.at > Len(@.maps) THEN Waiting ELSE Import("copy", @.maps, @.at + 1, NoFile)]
  /\ UNCHANGED <<directory, imports, edits, importFaults, verdict, checked, disturbed, keyVars>>

\* A source that was replaced is read as it was opened, one that was rewritten
\* as it is; a target that another copy has filled may keep the tail of that.
CopyData(w) ==
  /\ importer[w].pc = "data"
  /\ \E content \in {importer[w].source, files[CurrentMap(w).path], Partial} \ {NoFile} :
       /\ content = Partial => imported[CurrentMap(w).name] # Partial
       /\ imported' = [imported EXCEPT ![CurrentMap(w).name] = content]
  /\ LET step == importer[w] IN
     importer' = [importer EXCEPT ![w] =
       IF step.at = Len(step.maps) THEN Waiting
       ELSE Import("copy", step.maps, step.at + 1, NoFile)]
  /\ UNCHANGED <<directory, imports, edits, importFaults, verdict, checked, disturbed, keyVars>>

ImporterDies(w) ==
  /\ importer[w] # Waiting
  /\ importFaults < MaxImportFaults /\ importFaults' = importFaults + 1
  /\ importer' = [importer EXCEPT ![w] = Waiting]
  /\ UNCHANGED <<directory, imported, imports, edits, verdict, checked, disturbed, keyVars>>

verify_package_directory ==
  /\ verdict' = IF package_ok THEN "ok" ELSE "failed"
  /\ UNCHANGED <<directory, imported, importer, imports, edits, importFaults, checked,
                 disturbed, keyVars>>

\* The publisher's directory is brought to another version, file by file.
Edit(v) ==
  /\ edits < MaxEdits /\ edits' = edits + 1
  /\ \/ manifest # v.manifest /\ manifest' = v.manifest /\ UNCHANGED files
     \/ /\ \E path \in DOMAIN files :
             files[path] # v.files[path] /\ files' = [files EXCEPT ![path] = v.files[path]]
        /\ UNCHANGED manifest
  /\ disturbed' = (disturbed \/ \E w \in Importers : importer[w] # Waiting)
  /\ verdict' = "none"
  /\ UNCHANGED <<imported, importer, imports, importFaults, checked, keyVars>>

\* A verdict is about the store it looked at.
KeyStep == KeyNext /\ verdict' = "none"
           /\ UNCHANGED <<directory, imported, importer, imports, edits, importFaults,
                          checked, disturbed>>

Next ==
  \/ \E w \in Importers :
       \/ \E map \in MapsOf(manifest) : import_community_map_file(w, map)
       \/ import_package_directory(w)
       \/ ReadManifest(w) \/ OpenCopy(w) \/ CopyData(w) \/ ImporterDies(w)
  \/ verify_package_directory
  \/ \E v \in Versions : Edit(v)
  \/ KeyStep

Spec == Init /\ [][Next]_allVars

-------------------------------------------------------------------------------
TypeOK ==
  /\ \A w \in Importers :
       /\ importer[w].pc \in {"idle", "list", "copy", "data"}
       /\ importer[w].pc = "data" <=> importer[w].source # NoFile
       /\ importer[w].pc \in {"copy", "data"} <=> importer[w].at \in DOMAIN importer[w].maps
  /\ imports \in 0 .. MaxImports /\ edits \in 0 .. MaxEdits
  /\ importFaults \in 0 .. MaxImportFaults
  /\ verdict \in {"none", "ok", "failed"}

(***************************************************************************)
(* What lies whole in community-maps was checked there and then: its       *)
(* checksum in a package all of whose files checked out, or its validation *)
(* as a single file; through deaths, several imports at a time and changes *)
(* of the source between imports (during one, the code promises nothing).  *)
(***************************************************************************)
ImportedWasChecked ==
  disturbed \/ \A n \in Names : imported[n] \in {NoFile, Partial} \/ <<n, imported[n]>> \in checked

(***************************************************************************)
(* `package verify` does not pass a package that names a revoked key,      *)
(* whatever sequence of trust, forced trust and revoke came before and is  *)
(* under way: unless the file of that key is being written just then, or   *)
(* some write of it was cut short or met another.                          *)
(***************************************************************************)
VerifyRejectsRevoked ==
  LET k == manifest.key_id IN
  verdict = "ok" /\ k # NoKey /\ k \notin torn /\ ~BeingWritten(k) => ~barred[k]

(***************************************************************************)
(* Run at any moment, beside key commands that race and die, `package      *)
(* verify` passes a package that names a revoked key only because the      *)
(* record of that key cannot be read: it is being rewritten, or was lost.  *)
(***************************************************************************)
PassedForLack ==
  verdict = "ok" /\ manifest.key_id # NoKey /\ barred[manifest.key_id]
    => keys[manifest.key_id] \in {EmptyFile, GarbledFile}

===============================================================================
