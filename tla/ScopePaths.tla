----------------------------- MODULE ScopePaths -----------------------------
(***************************************************************************)
(* Scope resolution and overlap (runtime/write_scope.py).                  *)
(*                                                                         *)
(* A raw scope is the sequence of its components between the slashes: it   *)
(* begins with Empty if it is absolute.  A component with "**" in its name *)
(* stands for what is left of the name.  A resolved path is the sequence   *)
(* of the components behind its first slash, and <<>> the filesystem root. *)
(* Comparing component by component is what the source does with           *)
(* startswith(other + os.sep): "/a/foobar" is not below "/a/foo".          *)
(***************************************************************************)
EXTENDS Naturals, Sequences, SequencesExt

CONSTANTS
    RecursiveMark,  \* the "**" marker of a recursive scope
    Parent,         \* the ".." component
    Here,           \* the "." component
    Empty,          \* the empty component, between two slashes
    Cwd             \* the components of os.getcwd()

(***************************************************************************)
(* resolve_scope_path.  Every "**" is removed wherever it stands, and the  *)
(* slashes beside it stay: behind a leading one the path is absolute.      *)
(***************************************************************************)
Nothing == {RecursiveMark, Empty}

\* os.path.abspath normalises lexically; ".." of the root is the root.
ResolveComponent(resolved, component) ==
    IF component \in Nothing \cup {Here} THEN resolved
    ELSE IF component = Parent
         THEN IF resolved = <<>> THEN <<>> ELSE Front(resolved)
         ELSE Append(resolved, component)

Something(raw) == {i \in DOMAIN raw : raw[i] \notin Nothing}

\* The slashes the path begins with, once "**" is removed.
LeadingSlashes(raw) == (CHOOSE i \in Something(raw) : \A j \in Something(raw) : i <= j) - 1

\* Nothing but slashes is the root; what begins with none is below the directory
\* the process is in.
Names(raw) ==
    IF Something(raw) = {} THEN <<>>
    ELSE FoldLeft(ResolveComponent, IF LeadingSlashes(raw) = 0 THEN Cwd ELSE <<>>, raw)

\* abspath takes three leading slashes for one, and keeps two.
DoubleSlashed(raw) == Something(raw) # {} /\ LeadingSlashes(raw) = 2

ResolveScopePath(raw) ==
    IF DoubleSlashed(raw)
    THEN <<Empty>> \o (IF Names(raw) = <<>> THEN <<Empty>> ELSE Names(raw))
    ELSE Names(raw)

\* Mutant: an ancestor that comes second is missed.
PathsOverlapDownward(a, b) ==
    \/ a = <<>> \/ b = <<>>
    \/ a = b
    \/ IsStrictPrefix(a, b)

(***************************************************************************)
(* paths_overlap: equal, or one an ancestor of the other.                  *)
(***************************************************************************)
PathsOverlap(a, b) ==
    \/ a = <<>> \/ b = <<>>
    \/ a = b
    \/ IsStrictPrefix(b, a)
    \/ IsStrictPrefix(a, b)
=============================================================================
