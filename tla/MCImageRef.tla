----------------------------- MODULE MCImageRef -----------------------------
(***************************************************************************)
(* Parses every reference of the grammar                                   *)
(*     [registry[:port]/][namespace/]repo[:tag][@digest]                   *)
(* built from one small value per component, and compares the result with  *)
(* the components the reference was built from.                            *)
(***************************************************************************)
EXTENDS ImageRef

\* Component choices; <<>> stands for an absent component.
Registries == {<<>>, <<"r">>, <<"r", ":", "5">>}
Namespaces == {<<>>, <<"n">>, <<"n", "/", "m">>}
Tags       == {<<>>, <<"t">>}
Digests    == {<<>>, <<"s", ":", "d">>}    \* digests contain a colon
Repo       == <<"p">>

Components == [registry : Registries, namespace : Namespaces,
               tag : Tags, digest : Digests]

\* Joins the present parts with a separator.
JoinPresent(parts, sep) ==
    LET present == SelectSeq(parts, LAMBDA x : x # <<>>) IN
    IF present = <<>> THEN <<>>
    ELSE FoldLeft(LAMBDA acc, x : acc \o sep \o x, Head(present), Tail(present))

\* The reference string of the grammar for the components c.
Build(c) ==
    JoinPresent(<<c.registry, c.namespace, Repo>>, <<"/">>)
      \o (IF c.tag = <<>> THEN <<>> ELSE <<":">> \o c.tag)
      \o (IF c.digest = <<>> THEN <<>> ELSE <<"@">> \o c.digest)

MCChars == {"r", "5", "n", "m", "p", "t", "s", "d", ":", "/", "@"}
MCRefs  == {Build(c) : c \in Components}

\* Reference definition: the fields the grammar assigns to c.  With no
\* registry and no namespace, registry_and_namespace is "localhost"; its first
\* segment is the registry.
OrNone(s) == IF s = <<>> THEN None ELSE s
ExpectedRgyAndNs(c) ==
    LET j == JoinPresent(<<c.registry, c.namespace>>, <<"/">>) IN
    IF j = <<>> THEN Localhost ELSE j
Expected(c) ==
    [digest |-> OrNone(c.digest), tag |-> OrNone(c.tag), repository |-> Repo,
     registry_and_namespace |-> ExpectedRgyAndNs(c),
     registry |-> SplitAt(ExpectedRgyAndNs(c), "/", FALSE)[1]]

Matches(c) ==
    \A f \in DOMAIN Expected(c) : parsed[f] = Expected(c)[f]

HasPort(c) == c.registry = <<"r", ":", "5">>

(***************************************************************************)
(* Spec section 8: parsing any reference of the grammar recovers its       *)
(* registry-and-namespace, repository, tag and digest (parse_image_ref).    *)
(***************************************************************************)
ParseMatchesGrammar ==
    pc = "done" => \A c \in Components : ref = Build(c) => Matches(c)

(***************************************************************************)
(* parse_image_ref recovers the components of every grammar reference      *)
(* except those whose registry has a port and which carry no tag: the last *)
(* ":" is searched before the path is split (line 32), so only then does   *)
(* the port pass for a tag.                                                 *)
(***************************************************************************)
ParseCorrectUnlessUntaggedPort ==
    pc = "done" =>
        \A c \in Components :
            ref = Build(c) /\ ~(HasPort(c) /\ c.tag = <<>>) => Matches(c)
=============================================================================
