----------------------------- MODULE TrustedKeys ------------------------------
(***************************************************************************)
(* The trusted key store, .runewall/trusted-keys/<key_id>.json: `keys      *)
(* trust` looks whether the file exists and then writes it, `keys revoke`  *)
(* looks the record up, reads its file again and writes it back with       *)
(* another status.  There is no lock, and Path.write_text truncates a file *)
(* before it writes it: in between, or if its process dies there, the file *)
(* is empty, and a file that is no record is one the readers skip.         *)
(*                                                                         *)
(* A key file that does not validate, a key that exists (without --force)  *)
(* and a key that is not found end their commands without a change: those  *)
(* are no steps.                                                           *)
(***************************************************************************)
EXTENDS Integers

CONSTANTS Keepers,        \* processes that run `maps community keys ...`
          KeyIds,
          PublicKeys,
          NoKey,          \* no public key
          MaxKeyCommands, \* bound: trust and revoke commands
          MaxKeyFaults    \* bound: processes that die

ASSUME NoKeyAssumption == NoKey \notin PublicKeys \cup KeyIds
ASSUME BoundsAssumption == MaxKeyCommands \in Nat /\ MaxKeyFaults \in Nat

VARIABLES keys,     \* the file of each key
          keeper,   \* where each command is, and what it will write
          keyCommands, keyFaults,
          given,    \* history: <<key_id, public_key>> users have trusted
          barred,   \* history: revoked, and not trusted again with --force
          torn      \* history: keys whose file two commands wrote at once, or
                    \* whose writer died

keyHistory == <<given, barred>>
keyVars    == <<keys, keeper, keyCommands, keyFaults, keyHistory, torn>>

-------------------------------------------------------------------------------
Record(public_key, status) == [public_key |-> public_key, status |-> status]
AbsentFile  == Record(NoKey, "absent")
EmptyFile   == Record(NoKey, "empty")
GarbledFile == Record(NoKey, "garbled")   \* one record written over another
Records     == [public_key : PublicKeys, status : {"trusted", "revoked"}]
KeyFiles    == Records \cup {AbsentFile, EmptyFile, GarbledFile}

\* list_trusted_keys leaves out what is not a record.
inspect_trusted_key(k) == IF keys[k] \in Records THEN {keys[k]} ELSE {}

AtRest == [pc |-> "idle", id |-> NoKey, record |-> AbsentFile]

KeyInit ==
  /\ keys = [k \in KeyIds |-> AbsentFile]
  /\ keeper = [w \in Keepers |-> AtRest]
  /\ keyCommands = 0 /\ keyFaults = 0
  /\ given = {}
  /\ barred = [k \in KeyIds |-> FALSE]
  /\ torn = {}

BeginKeyCommand(w, step) ==
  /\ keeper[w] = AtRest
  /\ keyCommands < MaxKeyCommands /\ keyCommands' = keyCommands + 1
  /\ keeper' = [keeper EXCEPT ![w] = step]
  /\ UNCHANGED <<keys, keyFaults, torn>>

\* Variant: --force is not asked for.
trust_key_file_unforced(w, k, public_key, force) ==
  /\ BeginKeyCommand(w, [pc |-> "open", id |-> k, record |-> Record(public_key, "trusted")])
  /\ given' = given \cup {<<k, public_key>>}
  /\ barred' = [barred EXCEPT ![k] = @ /\ ~force]

trust_key_file(w, k, public_key, force) ==
  /\ keys[k] = AbsentFile \/ force
  /\ BeginKeyCommand(w, [pc |-> "open", id |-> k, record |-> Record(public_key, "trusted")])
  /\ given' = given \cup {<<k, public_key>>}
  /\ barred' = [barred EXCEPT ![k] = @ /\ ~force]

revoke_trusted_key(w, k) ==
  /\ inspect_trusted_key(k) # {}
  /\ BeginKeyCommand(w, [pc |-> "read", id |-> k, record |-> AbsentFile])
  /\ UNCHANGED keyHistory

\* Variant: the first record of the directory is read, not the one asked for.
ReadFirstRecord(w) ==
  /\ keeper[w].pc = "read"
  /\ \E first \in KeyIds :
       /\ inspect_trusted_key(first) # {}
       /\ keeper' = [keeper EXCEPT ![w].pc = "open",
                                   ![w].record = Record(keys[first].public_key, "revoked")]
  /\ UNCHANGED <<keys, keyCommands, keyFaults, keyHistory, torn>>

\* Variant: a file that does not parse is read as an empty object.
ReadRecordOrNothing(w) ==
  /\ keeper[w].pc = "read"
  /\ LET k == keeper[w].id IN
     keeper' = [keeper EXCEPT ![w] =
       [pc |-> "open", id |-> k, record |-> Record(keys[k].public_key, "revoked")]]
  /\ UNCHANGED <<keys, keyCommands, keyFaults, keyHistory, torn>>

\* The second read; json.load raises on a file that was truncated since.
ReadRecord(w) ==
  /\ keeper[w].pc = "read"
  /\ LET k == keeper[w].id IN
     keeper' = [keeper EXCEPT ![w] =
       IF keys[k] \in Records
       THEN [pc |-> "open", id |-> k, record |-> Record(keys[k].public_key, "revoked")]
       ELSE AtRest]
  /\ UNCHANGED <<keys, keyCommands, keyFaults, keyHistory, torn>>

BeingWritten(k) == \E w \in Keepers : keeper[w].pc = "write" /\ keeper[w].id = k

OpenRecord(w) ==
  /\ keeper[w].pc = "open"
  /\ keys' = [keys EXCEPT ![keeper[w].id] = EmptyFile]
  /\ keeper' = [keeper EXCEPT ![w].pc = "write"]
  /\ torn' = torn \cup {k \in {keeper[w].id} : BeingWritten(k)}
  /\ UNCHANGED <<keyCommands, keyFaults, keyHistory>>

\* Is a trust command for k past its check, other than w?
BeingTrusted(k, w) ==
  \E other \in Keepers \ {w} : keeper[other].id = k /\ keeper[other].record.status = "trusted"

\* Written over what another process wrote since the file was truncated, the
\* record replaces it or leaves its tail.
WriteRecord(w) ==
  /\ keeper[w].pc = "write"
  /\ LET k == keeper[w].id  record == keeper[w].record IN
       /\ \E result \in {record, GarbledFile} :
            /\ keys[k] = EmptyFile => result = record
            /\ keys' = [keys EXCEPT ![k] = result]
       /\ barred' = [barred EXCEPT ![k] =
                       @ \/ (record.status = "revoked" /\ ~BeingTrusted(k, w))]
  /\ keeper' = [keeper EXCEPT ![w] = AtRest]
  /\ UNCHANGED <<keyCommands, keyFaults, given, torn>>

KeeperDies(w) ==
  /\ keeper[w] # AtRest
  /\ keyFaults < MaxKeyFaults /\ keyFaults' = keyFaults + 1
  /\ torn' = IF keeper[w].pc = "write" THEN torn \cup {keeper[w].id} ELSE torn
  /\ keeper' = [keeper EXCEPT ![w] = AtRest]
  /\ UNCHANGED <<keys, keyCommands, keyHistory>>

KeyNext ==
  \E w \in Keepers :
    \/ \E k \in KeyIds :
         \/ revoke_trusted_key(w, k)
         \/ \E public_key \in PublicKeys, force \in BOOLEAN :
              trust_key_file(w, k, public_key, force)
    \/ ReadRecord(w) \/ OpenRecord(w) \/ WriteRecord(w) \/ KeeperDies(w)

KeySpec == KeyInit /\ [][KeyNext]_keyVars

-------------------------------------------------------------------------------
KeyTypeOK ==
  /\ keys \in [KeyIds -> KeyFiles]
  /\ keeper \in [Keepers -> [pc : {"idle", "read", "open", "write"},
                             id : KeyIds \cup {NoKey}, record : Records \cup {AbsentFile}]]
  /\ keyCommands \in 0 .. MaxKeyCommands /\ keyFaults \in 0 .. MaxKeyFaults
  /\ given \subseteq KeyIds \X PublicKeys
  /\ barred \in [KeyIds -> BOOLEAN]
  /\ torn \subseteq KeyIds

(***************************************************************************)
(* A revocation that was reported done holds: whatever commands run beside *)
(* or after it, die half-way or write into each other, the key is trusted  *)
(* again only by a trust command that was given --force, or that had       *)
(* passed its check before the revocation ended.                           *)
(***************************************************************************)
RevocationSticks == \A k \in KeyIds : barred[k] => keys[k].status # "trusted"

(***************************************************************************)
(* A record, trusted or revoked, names a public key that a user gave for   *)
(* that very key_id: no race and no death mixes the records of two keys or *)
(* two publishers.                                                         *)
(***************************************************************************)
KeysAreGiven ==
  \A k \in KeyIds : keys[k] \in Records => <<k, keys[k].public_key>> \in given

===============================================================================
