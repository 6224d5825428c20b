------------------------------ MODULE KVStore -------------------------------
(***************************************************************************)
(* KVStore (kvstore/src/chumicro_kvstore/core.py) over the backends that   *)
(* keep data through a power cycle: a LittleFS file replaced by rename, an *)
(* NVS blob, and a CRC-framed record in raw NVM.  The power can go at any  *)
(* point of a save; file and NVS operations can fail.                      *)
(* A value may be mutable: what the store hands out can be changed in      *)
(* place.                                                                  *)
(*                                                                         *)
(* A payload is the set of the dict it encodes, the empty bytes are {}.    *)
(* What the CRC, the magic and msgpack reject is the flag torn.            *)
(***************************************************************************)
EXTENDS FiniteSets, Integers

CONSTANTS
    Backends,     \* among "littlefs", "nvs" and "nvm"
    Capacities,   \* how many keys may fit; 0 is unbounded
    Keys, Values,
    Deep,         \* the values msgpack refuses to encode
    Mutable,      \* the values that can be changed in place, into each other
    MaxUnsettled  \* bound: how many records the flash may be undecided between

ASSUME KVAssumption ==
    /\ Backends \subseteq {"littlefs", "nvs", "nvm"}
    /\ Capacities \subseteq Nat
    /\ Deep \subseteq Values
    /\ Mutable \subseteq Values
    /\ MaxUnsettled \in Nat

VARIABLES
    backend,   \* which backend: fixed when the store is built
    capacity,  \* Backend.capacity_bytes: fixed as well
    phase,     \* off, idle, or the next step of the save
    data,      \* KVStore._data
    last,      \* KVStore._last_payload
    corrupt,   \* KVStore.is_corrupt
    dirty,     \* KVStore._dirty
    job,       \* the payload being saved
    medium,    \* what the backend's load() reads
    unsettled, \* NVS: the records flash may hold until a commit() returns
    tmp        \* the temporary file

store     == <<data, last, corrupt, dirty>>
setup     == <<backend, capacity>>
media     == <<medium, unsettled, tmp>>
storeVars == <<setup, phase, store, job, media>>

Dicts == UNION {[K -> Values] : K \in SUBSET Keys}
Empty == [k \in {} |-> k]

Whole(payload) == [payload |-> payload, torn |-> FALSE]
Damaged        == [payload |-> {}, torn |-> TRUE]

Decode(payload) == IF payload = {} THEN Empty ELSE CHOOSE d \in payload : TRUE

\* packb raises ValueError past its nesting limit.
Encodable(d) == \A k \in DOMAIN d : d[k] \notin Deep

Fits(d) == capacity = 0 \/ Cardinality(DOMAIN d) <= capacity

StoreInit ==
    /\ backend \in Backends
    /\ capacity \in Capacities
    /\ phase = "off"
    /\ data = Empty
    /\ last = {}
    /\ corrupt = FALSE
    /\ dirty = FALSE
    /\ job = {}
    /\ medium = Whole({})
    /\ unsettled = {}
    /\ tmp = Whole({})

-----------------------------------------------------------------------------
\* Reading the medium

Loaded(payload) ==
    /\ data' = Decode(payload)
    /\ last' = payload
    /\ corrupt' = FALSE
    /\ dirty' = FALSE

\* load() hands out the payload.
LoadReads ==
    /\ ~medium.torn
    /\ Loaded(medium.payload)

\* open() raises OSError: load() takes the file for absent.
LoadMisses ==
    /\ backend = "littlefs"
    /\ Loaded({})

\* load() raises KVStoreCorrupt for a bad record and for any NVS error but one.
Refused == medium.torn \/ backend = "nvs"

\* The constructor parks the store empty when the payload is refused.
Boot ==
    /\ phase = "off"
    /\ phase' = "idle"
    /\ \/ LoadReads
       \/ LoadMisses
       \/ /\ Refused
          /\ data' = Empty
          /\ last' = {}
          /\ corrupt' = TRUE
          /\ dirty' = FALSE
    /\ UNCHANGED <<job, media>>

Reload ==
    /\ phase = "idle"
    /\ LoadReads \/ LoadMisses
    /\ UNCHANGED <<phase, job, media>>

\* reload() forgets what is unsaved before it knows that it can read.
ReloadRaises ==
    /\ phase = "idle"
    /\ Refused \/ backend = "littlefs"
    /\ dirty' = FALSE
    /\ UNCHANGED <<phase, data, last, corrupt, job, media>>

-----------------------------------------------------------------------------
\* The dict

Changed(d) ==
    /\ phase = "idle"
    /\ data' = d
    /\ dirty' = TRUE
    /\ UNCHANGED <<phase, last, corrupt, job, media>>

\* update(), and __setitem__ for a dict of one key.
Update(other) ==
    Changed([k \in DOMAIN data \cup DOMAIN other |->
                IF k \in DOMAIN other THEN other[k] ELSE data[k]])

\* __delitem__ and pop(key); pop(key, default) marks the store in any case.
Delete(k) == Changed([x \in DOMAIN data \ {k} |-> data[x]])

Clear == Changed(Empty)

\* __getitem__, get(), items() and values() hand the value out by reference:
\* what its holder changes in it is in the dict, and nothing marks the store.
InPlace(k, v) ==
    /\ phase = "idle"
    /\ k \in DOMAIN data
    /\ {data[k], v} \subseteq Mutable
    /\ data' = [data EXCEPT ![k] = v]
    /\ UNCHANGED <<phase, last, corrupt, dirty, job, media>>

-----------------------------------------------------------------------------
\* commit() and commit_if_changed().  A dict that cannot be encoded or does
\* not fit raises before anything changes.

FirstStep ==
    CASE backend = "littlefs" -> "open"
      [] backend = "nvs"      -> "blob"
      [] backend = "nvm"      -> "slab"

Persist ==
    /\ Encodable(data)
    /\ Fits(data)
    /\ job' = {data}
    /\ phase' = FirstStep

\* A plausible bug: the change counts as saved when the save starts.
PersistForgets ==
    /\ Persist
    /\ dirty' = FALSE
    /\ UNCHANGED <<data, last, corrupt, media>>

StartSave ==
    /\ Persist
    /\ UNCHANGED <<store, media>>

Commit ==
    /\ phase = "idle"
    /\ StartSave

CommitIfChanged ==
    /\ phase = "idle"
    /\ dirty
    /\ {data} # last
    /\ StartSave

\* Changed and changed back: nothing is written.
NothingChanged ==
    /\ phase = "idle"
    /\ dirty
    /\ Encodable(data)
    /\ {data} = last
    /\ dirty' = FALSE
    /\ UNCHANGED <<phase, data, last, corrupt, job, media>>

-----------------------------------------------------------------------------
\* The backends' save()

SaveReturns ==
    /\ phase' = "idle"
    /\ last' = job
    /\ corrupt' = FALSE
    /\ dirty' = FALSE
    /\ job' = {}
    /\ UNCHANGED data

\* A plausible bug: the payload is remembered although it was not written.
RaisesTooLate ==
    /\ phase' = "idle"
    /\ last' = job
    /\ job' = {}
    /\ UNCHANGED <<data, corrupt, dirty>>

SaveRaises ==
    /\ phase' = "idle"
    /\ job' = {}
    /\ UNCHANGED store

\* A plausible bug: the file itself is opened for writing.
OpenInPlace ==
    /\ phase = "open"
    /\ phase' = "write"
    /\ medium' = Damaged
    /\ UNCHANGED <<store, job, unsettled, tmp>>

\* Opening the temporary file truncates what a power cut left of it.
Open ==
    /\ phase = "open"
    /\ \/ /\ phase' = "write"
          /\ tmp' = Damaged
          /\ UNCHANGED <<store, job>>
       \/ SaveRaises /\ UNCHANGED tmp
    /\ UNCHANGED <<medium, unsettled>>

\* On an error the temporary file is removed, if that works.
Write ==
    /\ phase = "write"
    /\ \/ /\ phase' = "rename"
          /\ tmp' = Whole(job)
          /\ UNCHANGED <<store, job>>
       \/ SaveRaises /\ tmp' \in {Whole({}), Damaged}
    /\ UNCHANGED <<medium, unsettled>>

\* sync, then the atomic rename.
Rename ==
    /\ phase = "rename"
    /\ \/ SaveReturns /\ medium' = tmp /\ tmp' = Whole({})
       \/ SaveRaises /\ UNCHANGED <<medium, tmp>>
    /\ UNCHANGED unsettled

\* set_blob(): from here on get_blob() reads the payload, and flash may hold it
\* or not.  When it raises the payload may be set all the same.
Blob ==
    /\ phase = "blob"
    /\ unsettled' = unsettled \cup {medium, Whole(job)}
    /\ Cardinality(unsettled') <= MaxUnsettled
    /\ \/ /\ phase' = "sync"
          /\ medium' = Whole(job)
          /\ UNCHANGED <<store, job>>
       \/ SaveRaises /\ medium' \in {medium, Whole(job)}
    /\ UNCHANGED tmp

\* nvs.commit(): flash holds what get_blob() reads, or it raises and nobody knows.
Sync ==
    /\ phase = "sync"
    /\ \/ SaveReturns /\ unsettled' = {}
       \/ SaveRaises /\ UNCHANGED unsettled
    /\ UNCHANGED <<medium, tmp>>

\* One slice assignment of header and payload.
Slab ==
    /\ phase = "slab"
    /\ SaveReturns
    /\ medium' = Whole(job)
    /\ UNCHANGED <<unsettled, tmp>>

-----------------------------------------------------------------------------
\* What a power cut leaves: a file is replaced by its rename only; of NVS any of
\* the records it is undecided between; a record in NVM is the old one, the new
\* one, torn, or erased and not written yet, which reads as a blank slab.
Interrupted ==
    {medium} \cup unsettled \cup
    CASE phase = "blob" -> {Whole(job)}
      [] phase = "slab" -> {Whole(job), Damaged, Whole({})}
      [] OTHER          -> {}

PowerCut ==
    /\ phase # "off"
    /\ phase' = "off"
    /\ medium' \in Interrupted
    /\ data' = Empty
    /\ last' = {}
    /\ corrupt' = FALSE
    /\ dirty' = FALSE
    /\ job' = {}
    /\ unsettled' = {}
    /\ UNCHANGED tmp

StoreNext ==
    /\ \/ Boot \/ Reload \/ ReloadRaises
       \/ \E d \in Dicts : Update(d)
       \/ \E k \in Keys : Delete(k)
       \/ Clear
       \/ \E k \in Keys, v \in Mutable : InPlace(k, v)
       \/ Commit \/ CommitIfChanged \/ NothingChanged
       \/ Open \/ Write \/ Rename \/ Blob \/ Sync \/ Slab
       \/ PowerCut
    /\ UNCHANGED setup

StoreSpec == StoreInit /\ [][StoreNext]_storeVars

-----------------------------------------------------------------------------
\* However power cuts and failing writes cut a save short, a start finds whole
\* the last dict saved, the one being saved, or one whose NVS save raised, unless
\* the slab of an NVM was torn or left erased.  Then it finds nothing, and
\* is_corrupt tells of the torn record only.  A read that fails shows nothing and
\* changes nothing (the backends' load and save, KVStore.__init__, reload).
Durable == INSTANCE DurableMap WITH
    tears   <- backend = "nvm",
    halves  <- backend = "nvs",
    hides   <- backend # "nvm",
    up      <- phase # "off",
    memory  <- data,
    saved   <- Decode(medium.payload),
    unsure  <- {Decode(record.payload) : record \in unsettled},
    lost    <- medium.torn,
    flagged <- corrupt

DurableSpec == Durable!Spec

\* What the store believes to be stored is stored: a write that is skipped is
\* never one that an earlier failed save, a power cut or a torn record still
\* owes, except that an NVS save that raised may have replaced it
\* (_last_payload).
LastIsStored == last # {} => Whole(last) \in {medium} \cup unsettled

\* commit_if_changed() skips only what did not change: "Commit only when the
\* encoded payload changed since the last persist" (core.py).  A value changed
\* in place, or a reload() that raises, breaks it.
SkipMeansUnchanged == phase # "off" /\ ~dirty => data = Decode(last)

\* A change made through the store is owed until it is saved, through refused,
\* failed, interrupted and repeated commits: nothing but a reload() that raises
\* makes the store look clean while its dict differs from the stored one, and
\* but for a value changed in place no change goes unnoticed (_dirty).
ChangesAreOwed ==
    [][SkipMeansUnchanged =>
          \/ SkipMeansUnchanged'
          \/ ReloadRaises
          \/ \E k \in Keys, v \in Mutable : InPlace(k, v)]_storeVars

\* A dict that commit_if_changed() finds equal to the last one persisted is the
\* one that load() reads: "skip the write if bytes match the last persisted
\* payload" (docs/guide.md).  An NVS save that raised after set_blob() breaks it.
SkippedIsStored ==
    [][NothingChanged => data = Decode(medium.payload)]_storeVars

=============================================================================
