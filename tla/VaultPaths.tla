------------------------------ MODULE VaultPaths -------------------------------
(***************************************************************************)
(* The paths of vault files, as the vault service reads them and as the    *)
(* public bridge reads them before it lets a call through.  The two parse  *)
(* the same text on their own: the bridge forwards what the client wrote,  *)
(* not what it checked.                                                    *)
(*                                                                         *)
(* A text is a sequence of tokens: "/", "\\", " ", the segments "." and    *)
(* "..", and names.                                                        *)
(***************************************************************************)
EXTENDS Integers, Sequences, SequencesExt

CONSTANTS AllWritable,      \* allowAllWritablePaths: every path is writable
          WritableExact,    \* the bridge's writable paths,
          WritablePrefixes, \* the prefixes and
          WritableSuffixes  \* the suffixes of writable paths

Blank == " "

\* parseCsv drops the blanks around an entry, and entries without anything else.
ASSUME PolicyAssumption ==
       /\ AllWritable \in BOOLEAN
       /\ \A entry \in WritableExact \cup WritablePrefixes \cup WritableSuffixes :
             /\ entry \in Seq(STRING) /\ entry # <<>>
             /\ Head(entry) # Blank /\ Last(entry) # Blank

NoPath == <<>>

Separators == {"/", "\\"}

ForwardSlashes(text) ==
    [i \in DOMAIN text |-> IF text[i] = "\\" THEN "/" ELSE text[i]]

\* The places of the tokens that are not of `drop'.
Kept(text, drop) == {i \in DOMAIN text : text[i] \notin drop}

\* `text' without the tokens of `drop' at its start, and at its start and its end.
StripLeft(text, drop) ==
    IF Kept(text, drop) = {} THEN <<>>
    ELSE SubSeq(text, Min(Kept(text, drop)), Len(text))

Strip(text, drop) ==
    IF Kept(text, drop) = {} THEN <<>>
    ELSE SubSeq(text, Min(Kept(text, drop)), Max(Kept(text, drop)))

\* Some part between slashes is ".", ".." or empty.
HasBadPart(text) ==
    \/ text = <<>> \/ Head(text) = "/" \/ Last(text) = "/"
    \/ \E i \in DOMAIN text : /\ text[i] \in {".", ".."}
                              /\ i = 1 \/ text[i - 1] = "/"
                              /\ i = Len(text) \/ text[i + 1] = "/"
    \/ \E i \in 1..(Len(text) - 1) : text[i] = "/" /\ text[i + 1] = "/"

Checked(text) == IF HasBadPart(text) THEN NoPath ELSE text

\* Every run of slashes and backslashes is one slash: of `text', with slashes only, the
\* n-th token that does not follow a slash as a slash.
Singles(text) == {i \in DOMAIN text : i = 1 \/ text[i] # "/" \/ text[i - 1] # "/"}

Collapse(text) ==
    LET t == ForwardSlashes(text)
        nth(n) == CHOOSE i \in Singles(t) : Cardinality({k \in Singles(t) : k <= i}) = n
    IN  [n \in 1..Cardinality(Singles(t)) |-> t[nth(n)]]

\* safeVaultPath: the path the vault service uses, NoPath where it throws.
SafeVaultPath(text) ==
    LET trimmed == Strip(text, {Blank})
    IN  IF trimmed = <<>> \/ Head(trimmed) = "/" THEN NoPath
        ELSE Checked(Collapse(trimmed))

\* normalizeVaultPath: the path the bridge checks.
NormalizeVaultPath(text) == Checked(StripLeft(ForwardSlashes(text), {"/"}))

\* Mutation: any of the lists makes a path writable.
IsWritablePathByAny(path) ==
    \/ AllWritable
    \/ path \in WritableExact
    \/ \E p \in WritablePrefixes : IsPrefix(p, path)
    \/ \E s \in WritableSuffixes : IsSuffix(s, path)

IsWritablePath(path) ==
    \/ AllWritable
    \/ /\ path \in WritableExact \/ \E p \in WritablePrefixes : IsPrefix(p, path)
       /\ WritableSuffixes = {} \/ \E s \in WritableSuffixes : IsSuffix(s, path)

=============================================================================
