--------------------------- MODULE EvolutionTargets ---------------------------
(***************************************************************************)
(* The targets of evolution as a workspace defines them: what each of them *)
(* is made of, what the running agent shows of it, and the digest that is  *)
(* written down when it is used (src/learning/evolution/application:       *)
(* files.ts and code-sandbox.ts).                                          *)
(*                                                                         *)
(* A digest is the content itself.  A workspace w has files (path ->        *)
(* content), live tools (name -> description), a list of definitions and   *)
(* active revisions (ref -> content).                                      *)
(***************************************************************************)
EXTENDS Naturals, Sequences, FiniteSets, FiniteSetsExt

NoName == "-"
Absent == [kind |-> "absent"]
Failed == [kind |-> "failed"]
Text(text) == [kind |-> "text", text |-> text]
Catalog(descriptions) == [kind |-> "catalog", of |-> descriptions]

\* A path leaves the workspace by its name or by a link; what does not exist
\* has no real path either.
Contained(w, path) == path \in DOMAIN w.files /\ path \notin w.outside

\* One definition outside the workspace makes the whole document unreadable.
Loadable(w) == \A i \in DOMAIN w.definitions : Contained(w, w.definitions[i].path)

ActiveContent(w, ref) == IF ref \in DOMAIN w.active THEN w.active[ref] ELSE Absent

---------------------------------------------------------------------------
(* Tools of a definition                                                   *)

HasCatalog(d) == d.toolNames # {}
Configured(d, tools) ==
  IF "*" \in d.toolNames THEN DOMAIN tools
  ELSE IF HasCatalog(d) THEN d.toolNames
  ELSE {d.toolName} \ {NoName}
LiveTools(d, tools) == Configured(d, tools) \intersect DOMAIN tools
LiveCatalog(d, tools) == Catalog([n \in LiveTools(d, tools) |-> tools[n]])

---------------------------------------------------------------------------
(* Code in its sandbox                                                     *)

\* The files of an active code revision: exactly the target files, in any
\* formatting.  Without one the checkout is read from the workspace.
CodeFiles(d, active) ==
  IF active = Absent THEN <<>>
  ELSE IF active.kind = "code" /\ DOMAIN active.files = d.targetFiles THEN active.files
  ELSE Failed

Code(files) == [kind |-> "code", files |-> files, layout |-> "canonical"]

\* materializeFileEvolutionCodeSandbox
Materialize(w, d, active) ==
  LET files == CodeFiles(d, active) IN
  IF \/ files = Failed
     \/ ~ (\A path \in d.checkout : Contained(w, path))
     \/ d.targetFiles = {} \/ ~ (d.targetFiles \subseteq d.checkout)
     \/ ~ d.contractValid
  THEN Failed
  ELSE Code([path \in d.targetFiles |->
               IF path \in DOMAIN files THEN files[path] ELSE w.files[path].text])

---------------------------------------------------------------------------
(* The target an operator works on                                         *)

ToolsMissing(d, tools) ==
  /\ d.class = "tool-description"
  /\ LiveTools(d, tools) = {} \/ LiveTools(d, tools) # Configured(d, tools)

\* An active catalog names every tool that is live, and no other.
CatalogStale(d, tools, active) ==
  /\ d.class = "tool-description" /\ HasCatalog(d) /\ active # Absent
  /\ active.kind # "catalog" \/ DOMAIN active.of # LiveTools(d, tools)

SourceContent(w, d) ==
  IF HasCatalog(d) THEN LiveCatalog(d, w.tools)
  ELSE IF LiveTools(d, w.tools) # {} THEN Text(w.tools[d.toolName])
  ELSE w.files[d.path]

Defining(w, ref) == {i \in DOMAIN w.definitions : w.definitions[i].ref = ref}

\* makeFileEvolutionTargetCatalog.resolve: the baseline and its digest.
Resolve(w, ref) ==
  IF ~ Loadable(w) \/ Defining(w, ref) = {} THEN Failed
  ELSE LET d == w.definitions[Min(Defining(w, ref))]
           active == ActiveContent(w, ref)
           code == IF d.checkout = {} THEN Absent ELSE Materialize(w, d, active)
           content == IF code # Absent THEN code
                      ELSE IF active # Absent THEN active ELSE SourceContent(w, d)
       IN  IF \/ ToolsMissing(d, w.tools) \/ CatalogStale(d, w.tools, active)
              \/ code = Failed \/ (d.class = "code" /\ code = Absent)
           THEN Failed
           ELSE [kind |-> "target", content |-> content,
                 digest |-> IF active # Absent THEN active ELSE content]

---------------------------------------------------------------------------
(* What the agent shows                                                    *)

Descriptions(w) ==
  {i \in DOMAIN w.definitions : w.definitions[i].class = "tool-description"}

\* Of two definitions that name the tool the later one counts; a catalog
\* that holds it counts besides.
Describing(w, tool) ==
  LET named == {i \in Descriptions(w) : w.definitions[i].toolName = tool} IN
  (IF named = {} THEN {} ELSE {[as |-> "tool", at |-> Max(named)]})
  \union {[as |-> "catalog", at |-> i] :
            i \in {j \in Descriptions(w) : /\ HasCatalog(w.definitions[j])
                                          /\ tool \in LiveTools(w.definitions[j], w.tools)}}

\* makeActiveEvolutionToolDecorator: the description the model reads.  A tool
\* of two description targets stops the boot.
ShownTool(w, tool) ==
  LET by == CHOOSE x \in Describing(w, tool) : TRUE
      active == ActiveContent(w, w.definitions[by.at].ref)
  IN  IF Cardinality(Describing(w, tool)) > 1 THEN Failed
      ELSE IF Describing(w, tool) = {} \/ active = Absent THEN Text(w.tools[tool])
      ELSE IF by.as = "tool" THEN active
      ELSE IF active.kind = "catalog" /\ tool \in DOMAIN active.of THEN Text(active.of[tool])
      ELSE Failed

\* makeActiveEvolutionPromptDecorator, makeActiveEvolutionSkillDecorator
ShownText(w, d) ==
  IF ActiveContent(w, d.ref) # Absent THEN ActiveContent(w, d.ref) ELSE w.files[d.path]

---------------------------------------------------------------------------
(* What is written down when it is used                                    *)

\* makeEvolutionRuntimeToolTargetResolver
ToolBaseline(w, d) ==
  IF d.class # "tool-description" THEN w.files[d.path]
  ELSE IF HasCatalog(d) THEN LiveCatalog(d, w.tools)
  ELSE IF LiveTools(d, w.tools) # {} THEN Text(w.tools[d.toolName]) ELSE Text("")

UsesTool(w, d, tool) ==
  IF d.class = "tool-description" /\ HasCatalog(d) THEN tool \in LiveTools(d, w.tools)
  ELSE d.toolName = tool

UsedDigest(w, d, baseline) ==
  IF ActiveContent(w, d.ref) # Absent THEN ActiveContent(w, d.ref) ELSE baseline

ToolUses(w, tool) ==
  {[ref |-> d.ref, digest |-> UsedDigest(w, d, ToolBaseline(w, d))] :
     d \in {w.definitions[i] : i \in {j \in DOMAIN w.definitions :
                                     UsesTool(w, w.definitions[j], tool)}}}

\* makeEvolutionRuntimeTurnTargetResolver: every turn uses every skill and
\* every prompt segment.
TurnUses(w) ==
  {[ref |-> d.ref, digest |-> UsedDigest(w, d, w.files[d.path])] :
     d \in {w.definitions[i] : i \in {j \in DOMAIN w.definitions :
              w.definitions[j].class \in {"skill", "prompt-segment"}}}}
=============================================================================
