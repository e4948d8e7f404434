-------------------------- MODULE RegistryAddress --------------------------
(***************************************************************************)
(* registryArgsWithDefaults and prependTagToImage                          *)
(* (pkg/reconciler/dependencybuild/buildrecipeyaml.go 900-932, 971-991):   *)
(* the OCI address every archive of a build is pushed to or pulled from.   *)
(*                                                                         *)
(* A string is a sequence of tokens.  The tag and the tag prefix are       *)
(* sequences of single characters, so their lengths are the lengths Go     *)
(* measures; host, port, owner and repository are one token each, since   *)
(* only whether they are empty or the default port matters.  The 128-byte  *)
(* tag limit is the constant TagMax.                                       *)
(***************************************************************************)
EXTENDS Naturals, Sequences, SequencesExt

CONSTANTS
    Registries,   \* tenant ImageRegistry values [host, port, owner, repository, prependTag]
    TagInputs,    \* preBuildImageTag arguments, "" included
    TagMax        \* 128 in the code

VARIABLES
    reg,        \* jbsConfig.ImageRegistry()
    imageTag,   \* the preBuildImageTag argument
    tag,        \* prependTagToImage(preBuildImageTag, PrependTag), when called
    address,    \* the returned registryArgs.String()
    pc

vars == <<reg, imageTag, tag, address, pc>>

DefaultHost       == <<"quay.io">>
DefaultTlsPort    == <<"443">>
DefaultRepository == <<"artifact-deployments">>

\* strings.LastIndex(s, ":") + 1, or 0 when s has no colon
LastColon(s) == SelectLastInSeq(s, LAMBDA c : c = ":")

\* Mutant: the tag is not truncated
PrependTagToImageNoTruncate(imageId, prependTag) ==
    LET i     == LastColon(imageId)
        slice == IF i # 0 THEN SubSeq(imageId, 1, i) ELSE <<>>
        t     == IF i # 0 THEN prependTag \o <<"_">> \o SubSeq(imageId, i + 1, Len(imageId))
                 ELSE IF prependTag # <<>> THEN prependTag \o <<"_">> \o imageId
                 ELSE imageId
    IN  slice \o t

\* Mutant: the tag is cut to TagMax - 1 characters (tag[0:127])
PrependTagToImageOffByOne(imageId, prependTag) ==
    LET i     == LastColon(imageId)
        slice == IF i # 0 THEN SubSeq(imageId, 1, i) ELSE <<>>
        t     == IF i # 0 THEN prependTag \o <<"_">> \o SubSeq(imageId, i + 1, Len(imageId))
                 ELSE IF prependTag # <<>> THEN prependTag \o <<"_">> \o imageId
                 ELSE imageId
    IN  slice \o (IF Len(t) > TagMax THEN SubSeq(t, 1, TagMax - 1) ELSE t)

(* Lines 971-991.  After the last colon the prefix is applied with "_"    *)
(* unconditionally; without a colon only when the prefix is not empty.    *)
(* The tag, not the slice before the colon, is cut to TagMax.             *)
PrependTagToImage(imageId, prependTag) ==
    LET i     == LastColon(imageId)
        slice == IF i # 0 THEN SubSeq(imageId, 1, i) ELSE <<>>
        t     == IF i # 0 THEN prependTag \o <<"_">> \o SubSeq(imageId, i + 1, Len(imageId))
                 ELSE IF prependTag # <<>> THEN prependTag \o <<"_">> \o imageId
                 ELSE imageId
    IN  slice \o (IF Len(t) > TagMax THEN SubSeq(t, 1, TagMax) ELSE t)

\* Lines 909-912: ":" and the port, unless it is empty or 443
PortPart(r) ==
    IF r.port # <<>> /\ r.port # DefaultTlsPort THEN <<":">> \o r.port ELSE <<>>

(* Lines 900-932: host (default quay.io), port, "/", owner and "/",       *)
(* repository (default artifact-deployments), and ":" with the prefixed   *)
(* tag when a tag is given.                                               *)
RegistryArgsWithDefaults(r, preBuildImageTag) ==
    (IF r.host # <<>> THEN r.host ELSE DefaultHost)
    \o PortPart(r)
    \o <<"/">>
    \o (IF r.owner # <<>> THEN r.owner \o <<"/">> ELSE <<>>)
    \o (IF r.repository # <<>> THEN r.repository ELSE DefaultRepository)
    \o (IF preBuildImageTag # <<>>
        THEN <<":">> \o PrependTagToImage(preBuildImageTag, r.prependTag)
        ELSE <<>>)

Init ==
    /\ reg \in Registries
    /\ imageTag \in TagInputs
    /\ tag = <<>>
    /\ address = <<>>
    /\ pc = "call"

\* One call of registryArgsWithDefaults(jbsConfig, preBuildImageTag)
Resolve ==
    /\ pc = "call"
    /\ tag' = IF imageTag # <<>> THEN PrependTagToImage(imageTag, reg.prependTag) ELSE <<>>
    /\ address' = RegistryArgsWithDefaults(reg, imageTag)
    /\ pc' = "returned"
    /\ UNCHANGED <<reg, imageTag>>

Next == Resolve

Spec == Init /\ [][Next]_vars

-----------------------------------------------------------------------------
(* Reference definition, spec 4.2 and 8: host defaults; the port only if  *)
(* present and not 443; owner/ if set; repository defaults; a supplied    *)
(* tag becomes prefix_suffix (the suffix alone for an empty prefix), is   *)
(* cut to exactly TagMax when longer and stays a prefix of the untruncated *)
(* value; after a colon the prefix is re-applied identically.             *)

Prefixed(prefix, suffix) == IF prefix = <<>> THEN suffix ELSE prefix \o <<"_">> \o suffix

SpecTag(prefix, s) ==
    LET i    == LastColon(s)
        full == Prefixed(prefix, SubSeq(s, i + 1, Len(s)))
        cut  == CHOOSE c \in Prefixes(full) : Len(c) = IF Len(full) > TagMax THEN TagMax ELSE Len(full)
    IN  SubSeq(s, 1, i) \o cut

SpecAddress(r, s) ==
    LET host  == IF r.host = <<>> THEN DefaultHost ELSE r.host
        port  == IF r.port \in {<<>>, DefaultTlsPort} THEN <<>> ELSE <<":">> \o r.port
        owner == IF r.owner = <<>> THEN <<>> ELSE r.owner \o <<"/">>
        repo  == IF r.repository = <<>> THEN DefaultRepository ELSE r.repository
        t     == IF s = <<>> THEN <<>> ELSE <<":">> \o SpecTag(r.prependTag, s)
    IN  host \o port \o <<"/">> \o owner \o repo \o t

-----------------------------------------------------------------------------
(* Properties.                                                            *)

\* The part of the tag after its last colon is an OCI tag: at most TagMax characters
TypeOK ==
    /\ reg \in Registries
    /\ imageTag \in TagInputs
    /\ pc \in {"call", "returned"}
    /\ Len(tag) - LastColon(tag) <= TagMax

(* The address registryArgsWithDefaults returns is the one spec 4.2       *)
(* defines, for every registry configuration and every tag argument: the  *)
(* defaults, the port rule, and a tag prefixed the same way with or       *)
(* without a colon and truncated to exactly TagMax, never fewer.          *)
ResolvesAsSpecified ==
    pc = "returned" => address = SpecAddress(reg, imageTag)

=============================================================================
