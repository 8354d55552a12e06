------------------------------ MODULE ImageRef ------------------------------
(***************************************************************************)
(* parse_image_ref and split_at of generate-charts.py.                     *)
(*                                                                         *)
(* A string is a sequence of one-character strings.  Python's rfind/find   *)
(* return a 0-based position or -1; SelectLastInSeq/SelectInSeq return a  *)
(* 1-based index or 0, so the code's test "pos > 0" is "index > 1" here.   *)
(* The function is run as a sequence of steps, one per code block, so that *)
(* the intermediate "remaining_ref" of every input can be inspected.       *)
(***************************************************************************)
EXTENDS Naturals, Sequences, SequencesExt, TLC

CONSTANTS
    Chars,      \* the characters image references are made of
    Refs,       \* the image reference strings parsed, in Seq(Chars)
    None        \* Python's None

VARIABLES
    ref,        \* image_ref, the argument
    remaining,  \* remaining_ref
    parsed,     \* parsed_ref, the dict being built (a function on field names)
    pc          \* the next code block to run

vars == <<ref, remaining, parsed, pc>>

Localhost == <<"l", "o", "c", "a", "l", "h", "o", "s", "t">>

\* str.rfind / str.find as 1-based indices, 0 when absent.
RFind(s, c) == SelectLastInSeq(s, LAMBDA x : x = c)
Find(s, c)  == SelectInSeq(s, LAMBDA x : x = c)

\* s[i:] and s[0:i] for the 1-based index i of the separator.
After(s, i)  == SubSeq(s, i + 1, Len(s))
Before(s, i) == SubSeq(s, 1, i - 1)

-----------------------------------------------------------------------------
\* split_at(the_str, the_delim, favor_right): split at the first delimiter.
SplitAt(str, delim, favorRight) ==
    LET i == Find(str, delim) IN
    IF i > 1 THEN <<Before(str, i), After(str, i)>>
    ELSE IF favorRight THEN <<None, str>> ELSE <<str, None>>

(* Mutant of the tag split: the tag is taken after the first colon.        *)
StripTagAtFirst(r) ==
    LET i == Find(r, ":") IN
    IF i > 1 THEN [tag |-> After(r, i), rest |-> Before(r, i)]
    ELSE [tag |-> None, rest |-> r]

(* Mutant of the digest split: the two slices are exchanged.              *)
StripDigestSwapped(r) ==
    LET i == RFind(r, "@") IN
    IF i > 1 THEN [digest |-> Before(r, i), rest |-> After(r, i)]
    ELSE [digest |-> None, rest |-> r]

\* Lines 26-31: split off the digest after the last "@".
StripDigest(r) ==
    LET i == RFind(r, "@") IN
    IF i > 1 THEN [digest |-> After(r, i), rest |-> Before(r, i)]
    ELSE [digest |-> None, rest |-> r]

\* Lines 32-37: then split off the tag after the last ":".
StripTag(r) ==
    LET i == RFind(r, ":") IN
    IF i > 1 THEN [tag |-> After(r, i), rest |-> Before(r, i)]
    ELSE [tag |-> None, rest |-> r]

\* Lines 38-45: the repository is what follows the last "/".
SplitRepository(r) ==
    LET i == RFind(r, "/") IN
    IF i > 1 THEN [repository |-> After(r, i), rgyAndNs |-> Before(r, i)]
    ELSE [repository |-> r, rgyAndNs |-> Localhost]

\* Lines 54-58: repository_and_suffix is the original after its last "/".
RepositoryAndSuffix(r) ==
    LET i == RFind(r, "/") IN IF i > 1 THEN After(r, i) ELSE r

-----------------------------------------------------------------------------
Init ==
    /\ ref \in Refs
    /\ remaining = ref
    /\ parsed = <<>>
    /\ pc = "digest"

ParseDigest ==
    /\ pc = "digest"
    /\ LET d == StripDigest(remaining) IN
         /\ parsed' = parsed @@ ("digest" :> d.digest)
         /\ remaining' = d.rest
    /\ pc' = "tag"
    /\ UNCHANGED ref

ParseTag ==
    /\ pc = "tag"
    /\ LET t == StripTag(remaining) IN
         /\ parsed' = parsed @@ ("tag" :> t.tag)
         /\ remaining' = t.rest
    /\ pc' = "repository"
    /\ UNCHANGED ref

ParseRepository ==
    /\ pc = "repository"
    /\ LET s == SplitRepository(remaining) IN
         parsed' = parsed @@ ("repository" :> s.repository)
                          @@ ("registry_and_namespace" :> s.rgyAndNs)
    /\ pc' = "registry"
    /\ UNCHANGED <<ref, remaining>>

\* Lines 47-61: registry and namespace from split_at(..., favor_right=False),
\* a missing namespace becomes "", and repository_and_suffix.
ParseRegistry ==
    /\ pc = "registry"
    /\ LET rn == SplitAt(parsed["registry_and_namespace"], "/", FALSE)
           ns == IF rn[2] = None THEN <<>> ELSE rn[2]
       IN parsed' = parsed @@ ("registry" :> rn[1]) @@ ("namespace" :> ns)
                           @@ ("repository_and_suffix" :> RepositoryAndSuffix(ref))
    /\ pc' = "done"
    /\ UNCHANGED <<ref, remaining>>

\* After ParseRegistry the function has returned: no step is enabled.
Next == ParseDigest \/ ParseTag \/ ParseRepository \/ ParseRegistry

Spec == Init /\ [][Next]_vars

-----------------------------------------------------------------------------
Str == Seq(Chars \cup ToSet(Localhost))
Fields == {"digest", "tag", "repository", "registry_and_namespace",
           "registry", "namespace", "repository_and_suffix"}

TypeOK ==
    /\ pc \in {"digest", "tag", "repository", "registry", "done"}
    /\ DOMAIN parsed \subseteq Fields
    /\ \A f \in DOMAIN parsed : parsed[f] = None \/ parsed[f] \in Str
    /\ remaining \in Str /\ IsPrefix(remaining, ref)
=============================================================================
