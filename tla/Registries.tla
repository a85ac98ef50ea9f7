------------------------------ MODULE Registries ------------------------------
(***************************************************************************)
(* gen_registries.py: registries/<id>.json is generated from the marked    *)
(* tables of ATP-SPEC.md, one file after the other, by a maintainer who    *)
(* also edits the tables and the codes that the revocation schema lists.   *)
(* A file that is being written is cut short until it is closed.           *)
(*                                                                         *)
(* The content of a table, of the file made from it and of the schema's    *)
(* list is a version; "unusable" is a table that is not under its marker,  *)
(* or lists a value twice.                                                 *)
(***************************************************************************)
EXTENDS Integers, Sequences

CONSTANTS
    Ids,            \* TABLES, in order
    Versions,       \* the contents of a table
    MaxEdits        \* bound: the edits of the maintainer

Reasons == "revocation-reasons"
Registry == {Ids[i] : i \in DOMAIN Ids}

ASSUME RegistriesAssumption ==
    /\ Ids \in Seq(STRING) /\ Reasons \in Registry
    /\ Versions # {} /\ Versions \cap {"unusable", "missing", "cut"} = {}
    /\ MaxEdits \in Nat

VARIABLES
    table,          \* the tables of the specification
    codes,          \* the codes in the revocation schema
    file,           \* the registry files
    batch,          \* what generate() has returned
    todo,           \* the registries that main() has not written yet
    edits           \* the edits that are left

registryVars == <<table, codes, file, batch, todo, edits>>

RegistriesTypeOK ==
    /\ table \in [Registry -> Versions \cup {"unusable"}] /\ codes \in Versions
    /\ file \in [Registry -> Versions \cup {"missing", "cut"}]
    /\ batch \in [Registry -> Versions]
    /\ todo \in Seq(Registry) /\ edits \in 0..MaxEdits

\* The repository as it is committed: everything agrees.
RegistriesInit ==
    /\ \E v \in Versions :
         /\ table = [r \in Registry |-> v] /\ codes = v
         /\ file = [r \in Registry |-> v] /\ batch = [r \in Registry |-> v]
    /\ todo = <<>> /\ edits \in 0..MaxEdits

EditTable(r, to) ==
    /\ edits > 0 /\ edits' = edits - 1
    /\ table' = [table EXCEPT ![r] = to]
    /\ UNCHANGED <<codes, file, batch, todo>>

EditCodes(to) ==
    /\ edits > 0 /\ edits' = edits - 1
    /\ codes' = to
    /\ UNCHANGED <<table, file, batch, todo>>

\* A registry file is edited by hand, or removed.
EditFile(r, to) ==
    /\ edits > 0 /\ edits' = edits - 1
    /\ file' = [file EXCEPT ![r] = to]
    /\ UNCHANGED <<table, codes, batch, todo>>

\* generate(): all tables are read before a file is written; one that is unusable ends
\* the program.
Usable == \A r \in Registry : table[r] # "unusable"

\* Defect: a table is not looked at before its file is written.
GenerateAnyway ==
    /\ todo = <<>> /\ edits > 0 /\ edits' = edits - 1
    /\ batch' = table /\ todo' = Ids
    /\ UNCHANGED <<table, codes, file>>

Generate ==
    /\ todo = <<>> /\ edits > 0 /\ edits' = edits - 1
    /\ Usable
    /\ batch' = table /\ todo' = Ids
    /\ UNCHANGED <<table, codes, file>>

\* main(): a file is opened, which empties it, and written.
Open ==
    /\ todo # <<>> /\ file[Head(todo)] # "cut"
    /\ file' = [file EXCEPT ![Head(todo)] = "cut"]
    /\ UNCHANGED <<table, codes, batch, todo, edits>>

Write ==
    /\ todo # <<>> /\ file[Head(todo)] = "cut"
    /\ file' = [file EXCEPT ![Head(todo)] = batch[Head(todo)]]
    /\ todo' = Tail(todo)
    /\ UNCHANGED <<table, codes, batch, edits>>

\* The program is interrupted, or an error ends it.
Interrupt ==
    /\ todo # <<>>
    /\ todo' = <<>>
    /\ UNCHANGED <<table, codes, file, batch, edits>>

RegistriesNext ==
    \/ \E r \in Registry, to \in Versions \cup {"unusable"} : EditTable(r, to)
    \/ \E to \in Versions : EditCodes(to)
    \/ \E r \in Registry, to \in Versions \cup {"missing"} : EditFile(r, to)
    \/ Generate \/ Open \/ Write \/ Interrupt

\* Defect: only the files that are there are compared.
CheckPassesIfThere == Usable /\ \A r \in Registry : file[r] \in {table[r], "missing", "cut"}

\* --check: no table is unusable, and no file is stale.
CheckPasses == Usable /\ \A r \in Registry : file[r] = table[r]

=============================================================================
