----------------------------- MODULE PageStore ------------------------------
(***************************************************************************)
(* The requests the analysis cache carries out on one namespace of the     *)
(* page store, and the outcomes each may have.  A page is opaque to the    *)
(* store: a write replaces a set of pages, all of them or none, and a read *)
(* decodes the envelope and the body of the page it finds.                 *)
(***************************************************************************)
EXTENDS FiniteSets

CONSTANTS Keys,      \* full page keys: kind, stream and page index
          Values,    \* decodable page contents
          Missing,   \* no page is stored under the key
          Damaged,   \* the stored bytes fail the envelope or the body decoder
          Pending    \* no reply yet

ASSUME PageValuesAssumption ==
  /\ Missing \notin Values
  /\ Damaged \notin Values
  /\ Missing # Damaged

Stored == Values \cup {Missing, Damaged}

(* A write carries one to 256 distinct keys, each with its new contents.   *)
WriteRequest == [op : {"write"},
                 pages : UNION {[K -> Values] : K \in SUBSET Keys \ {{}}}]
ReadRequest  == [op : {"read"}, key : Keys]
Request      == WriteRequest \cup ReadRequest

Reply == [status : {"Committed", "StorageError", "Missing", "Corrupt"}]
           \cup [status : {"Found"}, page : Values]

(* The store after a committed batch: the written pages replace the old    *)
(* ones, every other page stays.                                           *)
Overwrite(store, pages) ==
  [k \in Keys |-> IF k \in DOMAIN pages THEN pages[k] ELSE store[k]]

(* commitBatch as a worker request: one atomic replacement, or a storage   *)
(* error that leaves every page as it was.                                 *)
WriteOutcomes(pages, store) ==
  {[reply |-> [status |-> "Committed"],    store |-> Overwrite(store, pages)],
   [reply |-> [status |-> "StorageError"], store |-> store]}

(* readPage and the two decoders: what is stored decides the reply unless  *)
(* the storage fails.  Mutant: the page found is delivered undecoded.      *)
ReadReply_Unchecked(stored) ==
  IF stored = Missing THEN [status |-> "Missing"]
  ELSE [status |-> "Found", page |-> stored]

ReadReply(stored) ==
  IF stored = Missing THEN [status |-> "Missing"]
  ELSE IF stored = Damaged THEN [status |-> "Corrupt"]
  ELSE [status |-> "Found", page |-> stored]

ReadOutcomes(key, store) ==
  {[reply |-> ReadReply(store[key]),       store |-> store],
   [reply |-> [status |-> "StorageError"], store |-> store]}

Outcomes(r, store) ==
  IF r.op = "write" THEN WriteOutcomes(r.pages, store)
                    ELSE ReadOutcomes(r.key, store)
=============================================================================
