----------------------------- MODULE HashLibrary -----------------------------
(***************************************************************************)
(* The library of VK hashes in the web process's database.  Each thread    *)
(* has a connection of its own.  An addition counts what is there, asks    *)
(* for each value whether it is new, and only then begins the transaction  *)
(* that inserts; deletions and other additions may come in between.  An    *)
(* operation on users adds the user's hashes afterwards and takes a        *)
(* refusal for granted.                                                    *)
(***************************************************************************)
EXTENDS WebThreads

CONSTANTS
    Hashes,         \* the values themselves, as normalize_hash returns them
    LibraryLimit,   \* values in the library (500)
    CallLimit       \* values in one call (100 in an addition, 500 in an import)

ASSUME LibraryAssumption ==
    /\ IsFiniteSet(Hashes)
    /\ LibraryLimit \in Nat \ {0} /\ CallLimit \in Nat \ {0}

VARIABLES
    library,    \* the values in vk_hash_library
    adding,     \* adding[t]: the call of thread t, Free without one
    late        \* late[t]: the values others have inserted since t counted

libraryVars == <<library, adding, late>>

Call == [values : SUBSET Hashes,    \* what is to be added
         asked : SUBSET Hashes,     \* the values that have been looked up
         size : Nat]                \* existing + len(new_values)

Free == [values |-> {}, asked |-> {}, size |-> 0]

LibraryTypeOK ==
    /\ library \subseteq Hashes
    /\ adding \in [Threads -> Call]
    /\ late \in [Threads -> SUBSET Hashes]

LibraryInit ==
    /\ library = {}
    /\ adding = [t \in Threads |-> Free]
    /\ late = [t \in Threads |-> {}]

\* add_vk_hashes, parse_vk_hash_import: a call with no value, or too many, is
\* refused and changes nothing.  The others begin with SELECT COUNT(*).
StartAdding(t, values) ==
    /\ adding[t] = Free
    /\ values # {} /\ Cardinality(values) <= CallLimit
    /\ adding' = [adding EXCEPT ![t] =
                     [Free EXCEPT !.values = values, !.size = Cardinality(library)]]
    /\ UNCHANGED <<library, late>>

\* Mutant of LookUp: no value counts as new.
LookUpKnown(t, value) ==
    /\ value \in adding[t].values \ adding[t].asked
    /\ adding' = [adding EXCEPT ![t].asked = @ \cup {value}]
    /\ UNCHANGED <<library, late>>

\* SELECT 1 ... WHERE value = ?, a statement of its own for each value.
LookUp(t, value) ==
    /\ value \in adding[t].values \ adding[t].asked
    /\ adding' = [adding EXCEPT ![t].asked = @ \cup {value},
                                ![t].size = IF value \in library THEN @ ELSE @ + 1]
    /\ UNCHANGED <<library, late>>

AllLookedUp(t) == adding[t] # Free /\ adding[t].asked = adding[t].values

Fits(call) == call.size <= LibraryLimit

CountLate(t, inserted) ==
    [u \in Threads |-> IF u = t \/ adding[u] = Free THEN {} ELSE late[u] \cup inserted]

\* INSERT OR IGNORE of all values, one transaction; the answer is "ok".
Insert(t) ==
    /\ AllLookedUp(t) /\ Fits(adding[t])
    /\ library' = library \cup adding[t].values
    /\ late' = CountLate(t, library' \ library)
    /\ adding' = [adding EXCEPT ![t] = Free]

\* An error for the caller, or nothing at all after an operation on users.
RefuseFull(t) ==
    /\ AllLookedUp(t) /\ ~Fits(adding[t])
    /\ late' = [late EXCEPT ![t] = {}]
    /\ adding' = [adding EXCEPT ![t] = Free]
    /\ UNCHANGED library

\* delete_vk_hash
DeleteHash(value) ==
    /\ library' = library \ {value}
    /\ UNCHANGED <<adding, late>>

LibraryNext ==
    \/ \E t \in Threads, values \in SUBSET Hashes : StartAdding(t, values)
    \/ \E t \in Threads, value \in Hashes : LookUp(t, value)
    \/ \E t \in Threads : Insert(t) \/ RefuseFull(t)
    \/ \E value \in Hashes : DeleteHash(value)

LibrarySpec == LibraryInit /\ [][LibraryNext]_libraryVars

-----------------------------------------------------------------------------
(* Properties.                                                             *)

\* An addition that says "ok" leaves all it was given in the library, values
\* that were there when it looked and have been deleted since included, and
\* takes the library beyond its limit by no more than what other threads have
\* inserted since it counted: alone, it keeps to the limit.
AdditionsKept ==
    [][\A t \in Threads :
          AllLookedUp(t) /\ adding'[t] = Free /\ library' # library =>
              /\ adding[t].values \subseteq library'
              /\ Cardinality(library') <= LibraryLimit + Cardinality(late[t])]_libraryVars
=============================================================================
