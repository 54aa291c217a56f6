---------------------------- MODULE MCContainers ----------------------------
(* The data structures for TLC, the ring buffer, the vectors, the strings,    *)
(* the directory tree and the pool of pages: a behaviour is one of calls of a *)
(* single structure, the others keep their initial state.                     *)
EXTENDS RingBuffer, VectorStore, CppString, DiskUsage, PageAlloc, TLC

CONSTANT Parts   \* subset of {"ring", "vector", "string", "tree", "pages"}

VARIABLE part

allVars == <<vars, vecVars, strVars, duVars, pageVars, part>>

PartsInit ==
  /\ part \in Parts
  /\ Init /\ VectorInit /\ StringInit /\ DuInit /\ PageInit
  /\ part # "vector" => vecVersion = "vector"
  /\ part # "string" => strVersion = "stringer"
  /\ part # "tree" => duVersion = "du" /\ depth = 0 /\ kind = <<"gone">>

ContainersSpec ==
  /\ PartsInit
  /\ [][/\ UNCHANGED part
        /\ \/ part = "ring" /\ Next /\ UNCHANGED <<vecVars, strVars, duVars, pageVars>>
           \/ part = "vector" /\ VectorNext /\ UNCHANGED <<vars, strVars, duVars, pageVars>>
           \/ part = "string" /\ StringNext /\ UNCHANGED <<vars, vecVars, duVars, pageVars>>
           \/ part = "tree" /\ DuNext /\ UNCHANGED <<vars, vecVars, strVars, pageVars>>
           \/ part = "pages" /\ PageNext /\ UNCHANGED <<vars, vecVars, strVars, duVars>>]_allVars

(* -1 is a byte, and also what rb_peek answers for an empty buffer. *)
MCBytes == {-1, 65}

\* Every set of files has its own sum, with one empty file.
MCFileSize(p) == IF p = 3 THEN 0 ELSE 2^p

MCTexts == {<<>>, <<1>>, <<2>>, <<1, 2>>}

(* The user's pointers to its blocks are interchangeable. *)
PointerSymmetry == Permutations(Pointers)

=============================================================================
