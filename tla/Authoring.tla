----------------------------- MODULE Authoring -----------------------------
(***************************************************************************)
(* bang normalize: two sets of source files are read one file after the    *)
(* other, decoded, merged, checked and normalized, and the candidate is    *)
(* compared with the baseline.  An author may edit the candidate's files   *)
(* at any moment.                                                          *)
(***************************************************************************)
EXTENDS ExactOne

CONSTANTS
  BaselineSources,     \* what the baseline's files hold: a sequence of sequences
  Alternatives(_),     \* what an edit may write for a declaration
  Additions,           \* the declarations an edit may append
  MaxSourceEdits,
  Undecodable          \* a file that is not a document

ASSUME BaselineAssumption == IsList(BaselineSources)

VARIABLES
  sources,        \* the candidate's files
  sourceEdits,    \* edits so far
  loading,        \* the source sets read so far, a file at a time
  verdict         \* pending, a failed stage, or the comparison

authoring == <<sources, sourceEdits, loading, verdict>>

Pending == [stage |-> "pending"]
FailedAt(stage) == [stage |-> stage]

AuthoringInit ==
  /\ sources = BaselineSources /\ sourceEdits = 0
  /\ loading = <<>> /\ verdict = Pending

(* mergeDocuments, and the provenance: each declaration's file. *)
MergeDocuments(files) == FlattenSeq(files)
ProvenanceOf(files) ==
  FlattenSeq([f \in DOMAIN files |->
    [i \in DOMAIN files[f] |-> [id |-> files[f][i].id, path |-> f]]])

Baseline == SubSeq(loading, 1, Len(BaselineSources))
Candidate == SubSeq(loading, Len(BaselineSources) + 1, Len(loading))
AllLoaded == Len(loading) = 2 * Len(BaselineSources)
FileAt(n) == IF n <= Len(BaselineSources) THEN BaselineSources[n]
             ELSE sources[n - Len(BaselineSources)]

(* loadSource: a file that does not decode ends the command. *)
LoadSource ==
  /\ verdict = Pending /\ ~AllLoaded
  /\ LET file == FileAt(Len(loading) + 1)
     IN IF file = Undecodable \/ ~Decodes(file)
        THEN verdict' = FailedAt("source-decode") /\ UNCHANGED loading
        ELSE loading' = Append(loading, file) /\ UNCHANGED verdict
  /\ UNCHANGED <<sources, sourceEdits>>

Normalized(files) == NormalizeCore(MergeDocuments(files), ProvenanceOf(files))

ComparedAs(nb, nc, results) ==
  IF ~CleanParity(nb, nc, results) THEN FailedAt("clean-parity")
  ELSE [stage |-> "compared", results |-> results]

Comparison(nb, nc) == ComparedAs(nb, nc, CompareNormalizedCore(nb, nc))

(* compileSelectedNormalization once everything is read: both documents    *)
(* are validated, then both are normalized, then they are compared.        *)
CompileNormalization ==
  /\ verdict = Pending /\ AllLoaded
  /\ verdict' =
       IF \E files \in {<<1, Baseline>>, <<2, Candidate>>} : ~ValidateCore(MergeDocuments(files[2]))
       THEN FailedAt("core-validation")
       ELSE IF \E files \in {<<1, Baseline>>, <<2, Candidate>>} :
                 NormalizationFails(MergeDocuments(files[2]), ProvenanceOf(files[2]))
       THEN FailedAt("normalization")
       ELSE Comparison(Normalized(Baseline), Normalized(Candidate))
  /\ UNCHANGED <<sources, sourceEdits, loading>>

(* One edit of a candidate file.  No file is read again, so only those that *)
(* are still to be read matter.                                            *)
Edited(file) ==
  {Undecodable}
  \cup (UNION {{[file EXCEPT ![i] = d] : d \in Alternatives(file[i])} : i \in DOMAIN file})
  \cup {RemoveAt(file, i) : i \in DOMAIN file}
  \cup {Append(file, d) : d \in Additions}

EditSource ==
  /\ verdict = Pending /\ sourceEdits < MaxSourceEdits
  /\ Len(loading) >= Len(BaselineSources)  \* the baseline's files are not edited
  /\ ~AllLoaded
  /\ sourceEdits' = sourceEdits + 1
  /\ \/ \E f \in DOMAIN sources :
          /\ f > Len(Candidate) /\ sources[f] # Undecodable
          /\ \E file \in Edited(sources[f]) : sources' = [sources EXCEPT ![f] = file]
     \/ \E f, g \in DOMAIN sources :  \* a declaration moves to another file
          /\ f # g /\ g > Len(Candidate) /\ Undecodable \notin {sources[f], sources[g]}
          /\ \E i \in DOMAIN sources[f] :
               sources' = [sources EXCEPT ![f] = RemoveAt(@, i),
                                          ![g] = Append(@, sources[f][i])]
  /\ UNCHANGED <<loading, verdict>>

AuthoringNext == LoadSource \/ CompileNormalization \/ EditSource

AuthoringSpec == AuthoringInit /\ [][AuthoringNext]_authoring
-----------------------------------------------------------------------------
(* What validation accepts, every later reader can use: normalization      *)
(* finds each dependency and no address twice, the incremental candidate   *)
(* is the clean one, a finite model has a row for every term of every law, *)
(* and the theory graph joins theories that exist.                         *)
CheckedDocumentsAreComplete ==
  /\ verdict.stage \notin {"normalization", "clean-parity"}
  /\ verdict.stage = "compared" =>
       LET d == MergeDocuments(Candidate)
           graph == TheoryGraph(d)
       IN /\ \A m \in OfKind(d, "finiteModel") : \A t \in OfKind(d, "theory") :
               t.id = m.theory =>
                 \A e \in EvaluateFiniteModel(m, t) : "omitted" \notin {e[2], e[3]}
          /\ \A e \in graph.edges : e.ends \subseteq graph.nodes

Same(nb, nc, a) ==
  /\ a \in DOMAIN nb /\ a \in DOMAIN nc
  /\ nb[a].fingerprint = nc[a].fingerprint /\ nb[a].direct = nc[a].direct

Says(nb, nc, a) == a \in DOMAIN nb /\ a \in DOMAIN nc /\ nb[a].fingerprint = nc[a].fingerprint

ReusedExactly(nb, nc, direct) ==
  \A a \in DOMAIN nc :
    /\ verdict.results[a].status = "reused" =>
         Same(nb, nc, a) /\ \A x \in Reach(direct, {a}) : Says(nb, nc, x)
    /\ (\A x \in Reach(direct, {a}) : Same(nb, nc, x)) => verdict.results[a].status = "reused"

DirectOf(n) == [a \in DOMAIN n |-> n[a].direct]

(* A reused construct and all it rests on, directly or not, is said as in  *)
(* the baseline; and a construct is reused when it and all it rests on is  *)
(* said as in the baseline of the same premises.  The comparison looks at  *)
(* one construct and its closure only.                                     *)
ReuseIsExact ==
  verdict.stage = "compared" =>
    \E n \in {<<Normalized(Baseline), Normalized(Candidate)>>} :
      ReusedExactly(n[1], n[2], DirectOf(n[2]))

(* The theory of exact-one execution has an answer for every requirement   *)
(* of a checked document, and a result names all that could change it: as  *)
(* long as every construct among its invalidators is reused, the candidate *)
(* has the same result.                                                    *)
RequirementsOf(addresses) == {a \in addresses : RealizationOf(a) # "none"}

ResultsStand(results, before, after) ==
  \A a \in RequirementsOf(before) :
    LET old == ConsumeExactOne(MergeDocuments(Baseline), before, a)
    IN /\ old.tag # "failed"
       /\ (\A i \in old.invalidators : results[i].status = "reused")
            => ConsumeExactOne(MergeDocuments(Candidate), after, a) = old

InvalidatorsSuffice ==
  verdict.stage = "compared" =>
    LET results == verdict.results
        after == {a \in DOMAIN results : results[a].status # "removed"}
    IN /\ ResultsStand(results, {a \in DOMAIN results : results[a].status # "added"}, after)
       /\ \A a \in RequirementsOf(after) :
            ConsumeExactOne(MergeDocuments(Candidate), after, a).tag # "failed"
=============================================================================
