---------------------------- MODULE PeerIdentity -----------------------------
(***************************************************************************)
(* Where a node has its identity from (key.rs): the key in a file, or a    *)
(* new one, mined until its PeerId has enough leading zero bits and saved  *)
(* before the node runs with it.  The process may end at any moment.       *)
(*                                                                         *)
(* Abstracted: which keys meet the difficulty is a constant, and a file is *)
(* missing, broken (what a write that was cut short leaves, an empty file  *)
(* included) or the key written in it.  A file that holds a key can be     *)
(* read: get_key() takes every error of key_from_file() for "no key yet".  *)
(***************************************************************************)
EXTENDS Naturals

CONSTANTS
  Keypair,
  Mined,   \* the keys whose PeerId meets PEER_ID_DIFFICULTY
  NoKeypair

ASSUME MinedAssumption == Mined \subseteq Keypair
ASSUME NoKeypairAssumption == Keypair \cap {NoKeypair, "Missing", "Broken"} = {}

VARIABLES
  file,  \* "Missing", "Broken" or the key in it
  at,    \* where the program is
  key,   \* the key it has in memory
  known  \* history: the identity the node last ran with, if its file was kept

peer_vars == <<file, at, key, known>>

PeerInit ==
  /\ file \in {"Missing", "Broken"} \cup Keypair
  /\ at = "Off" /\ key = NoKeypair /\ known = NoKeypair

(* verify_peer_id() *)
VerifyPeerId(k) == k \in Mined

(* Mutant: a stored key below the difficulty is replaced. *)
GetKey_Replaces ==
  /\ at = "Off"
  /\ IF file \in Keypair /\ VerifyPeerId(file)
     THEN at' = "Running" /\ key' = file /\ known' = file
     ELSE at' = "Mining" /\ UNCHANGED <<key, known>>
  /\ UNCHANGED file

(* get_key(): take the stored key, or end with an error if it does not     *)
(* meet the difficulty; without a readable one start mining.               *)
GetKey ==
  /\ at = "Off"
  /\ IF file \in Keypair
     THEN /\ VerifyPeerId(file)
          /\ at' = "Running" /\ key' = file /\ known' = file
     ELSE at' = "Mining" /\ UNCHANGED <<key, known>>
  /\ UNCHANGED file

(* Mutant: the node runs with the key while it is being saved. *)
MineKey_RunsFirst(k) ==
  /\ at = "Mining"
  /\ IF VerifyPeerId(k)
     THEN at' = "Saving" /\ key' = k /\ known' = k
     ELSE UNCHANGED <<at, key, known>>
  /\ UNCHANGED file

(* mine_key(): one turn of the loop. *)
MineKey(k) ==
  /\ at = "Mining"
  /\ IF VerifyPeerId(k) THEN at' = "Saving" /\ key' = k ELSE UNCHANGED <<at, key>>
  /\ UNCHANGED <<file, known>>

(* key_to_file(): create the file, which empties it... *)
CreateFile ==
  /\ at = "Saving"
  /\ at' = "Writing"
  /\ file' = "Broken"
  /\ UNCHANGED <<key, known>>

(* ... and write the key. *)
WriteKey ==
  /\ at = "Writing"
  /\ file' = key
  /\ at' = "Running"
  /\ known' = key
  /\ UNCHANGED key

(* The process ends: an error of the file system, a crash, the user. *)
End ==
  /\ at # "Off"
  /\ at' = "Off"
  /\ key' = NoKeypair
  /\ UNCHANGED <<file, known>>

(* mine_keys removes the files before it asks for new keys. *)
RemoveFile ==
  /\ at = "Off"
  /\ file' = "Missing"
  /\ known' = NoKeypair
  /\ UNCHANGED <<at, key>>

PeerNext ==
  \/ GetKey
  \/ \E k \in Keypair : MineKey(k)
  \/ CreateFile
  \/ WriteKey
  \/ End
  \/ RemoveFile

PeerSpec == PeerInit /\ [][PeerNext]_peer_vars
-----------------------------------------------------------------------------

(* The variables have their types, and whatever key the program gets as    *)
(* far as saving or using has been through verify_peer_id().               *)
PeerTypeOK ==
  /\ file \in {"Missing", "Broken"} \cup Keypair
  /\ at \in {"Off", "Mining", "Saving", "Writing", "Running"}
  /\ key \in IF at \in {"Off", "Mining"} THEN {NoKeypair} ELSE Mined
  /\ known \in Mined \cup {NoKeypair}

(* A node that runs can start again with the same identity: its key is in  *)
(* the file by then, whatever crashes came before.                         *)
RunsWithSavedKey == at = "Running" => file = key

(* The other nodes know a node by its PeerId: unless its file is removed,  *)
(* it comes back as itself after every crash, one while it saves its first *)
(* key included.                                                           *)
IdentityKept ==
  [][known # NoKeypair /\ known' # NoKeypair => known' = known]_peer_vars

(* A stored key is never written over, not even one below the difficulty.  *)
StoredKeyKept ==
  [][(file \in Keypair /\ file' # file) => (file' = "Missing")]_peer_vars
=============================================================================
