------------------------------ MODULE GLProgram ------------------------------
(***************************************************************************)
(* osg::Program and osg::Shader as the OpenGL ES port builds them, for one *)
(* graphics context.  A program has one per-context program (PCP) for each *)
(* set of defines its shaders ask about; shaders of one stage are merged   *)
(* into one shader object, because ES links one object per stage.          *)
(*                                                                         *)
(* The operators act on a record `c` that the module GLState keeps in its  *)
(* variable.  The fields used here:                                        *)
(*   text       the version of each shader's source                        *)
(*   list       the shaders of each program (_shaderList)                  *)
(*   defines    the defines each program asks about (_shaderDefines)       *)
(*   pcs        what is compiled of a shader under some defines            *)
(*   pcp        the per-context programs, by <<program, defines>>          *)
(*   last, used _lastAppliedProgramObject, and what OpenGL really uses     *)
(*   defMap     the define stacks of State, see GLState                    *)
(***************************************************************************)
EXTENDS Naturals, FiniteSets, Sequences, Functions, GLNull

CONSTANTS Programs,     \* the programs, the two built-in ones included
          Shaders,
          ShadersOf,    \* [Programs -> SUBSET Shaders], as first put together
          StageOf,      \* [Shaders -> Stages]
          Imports,      \* [Shaders -> [0..MaxEdits -> SUBSET Defines]]: #pragma import_defines
          Requires,     \* [Shaders -> SUBSET Defines]: #pragma requires
          Broken,       \* the <<shader, version>> the driver refuses
          ActiveIn,     \* [Programs -> SUBSET uniform names]
          Defines,
          MaxEdits

Stages == {"vertex", "fragment"}

ASSUME ProgramAssumption ==
  /\ ShadersOf \in [Programs -> SUBSET Shaders]
  /\ StageOf \in [Shaders -> Stages]
  /\ Imports \in [Shaders -> [0..MaxEdits -> SUBSET Defines]]
  /\ Requires \in [Shaders -> SUBSET Defines]
  /\ MaxEdits \in Nat

Stale == None            \* a compiled shader that setShaderSource marked

(* Nothing has been uploaded to any uniform of a freshly linked program. *)
NoUniforms(p) ==
  [n \in ActiveIn[p] |-> [object |-> None, fresh |-> FALSE, value |-> None]]

Group(c, p, stage) == {sh \in c.list[p] : StageOf[sh] = stage}

\* Faulty: the requirements are not part of what tells programs apart.
ShaderDefinesImported(c, p) ==
  UNION {Imports[sh][c.text[sh]] : sh \in c.list[p]}

(* Program::dirtyProgram gathers what its shaders import and require.     *)
ShaderDefines(c, p) ==
  UNION {Imports[sh][c.text[sh]] \cup Requires[sh] : sh \in c.list[p]}

(* Program::dirtyProgram: every PCP must be linked again.                 *)
DirtyProgram(c, ps) ==
  [c EXCEPT
     !.defines = [p \in Programs |-> IF p \in ps THEN ShaderDefines(c, p) ELSE @[p]],
     !.pcp = [k \in DOMAIN @ |-> IF k[1] \in ps
                                 THEN [@[k] EXCEPT !.needsLink = TRUE, !.isLinked = FALSE]
                                 ELSE @[k]]]

(* Shader::setShaderSource: parse the pragmas of the new text, mark every  *)
(* compiled form stale and every program that holds the shader.           *)
SetShaderSource(c, sh) ==
  DirtyProgram([c EXCEPT !.text[sh] = @ + 1,
                         !.pcs = [k \in DOMAIN @ |-> IF k[1] = sh THEN Stale ELSE @[k]]],
               {p \in Programs : sh \in c.list[p]})

AddShader(c, p, sh) ==
  IF sh \in c.list[p] THEN c
  ELSE DirtyProgram([c EXCEPT !.list[p] = @ \cup {sh}], {p})

RemoveShader(c, p, sh) ==
  IF sh \notin c.list[p] THEN c
  ELSE DirtyProgram([c EXCEPT !.list[p] = @ \ {sh}], {p})

(* State::DefineMap::updateCurrentDefines, called by getDefineString when  *)
(* the stacks have changed: the defines whose top entry is ON.            *)
UpdateCurrentDefines(c) ==
  IF ~c.defMap.changed THEN c
  ELSE [c EXCEPT
          !.defMap.changed = FALSE,
          !.defMap.current =
             {d \in Defines : LET v == c.defMap.vec[d]
                              IN v # <<>> /\ v[Len(v)].value = "on"}]

(* State::getDefineString: the merge of two sorted lists is an intersection. *)
GetDefineString(c, asked) == c.defMap.current \cap asked

(* State::supportsShaderRequirements.                                      *)
SupportsRequirements(c, required) == required \subseteq c.defMap.current

(* Shader::compileShader through getPCS, for a shader alone in its stage:  *)
(* a PCS per set of defines, compiled when it is new or marked.           *)
CompilePCS(c, key) ==
  IF key \in DOMAIN c.pcs /\ c.pcs[key] # Stale THEN c
  ELSE [c EXCEPT !.pcs = [k \in DOMAIN @ \cup {key} |->
                            IF k = key THEN c.text[key[1]] ELSE @[k]]]

CompileShader(c, sh) ==
  IF SupportsRequirements(c, Requires[sh])
  THEN CompilePCS(c, <<sh, GetDefineString(c, Imports[sh][c.text[sh]])>>)
  ELSE c

(* What a stage contributes to the link: the shader object of its only     *)
(* shader, or a new object of all their sources one after the other; an    *)
(* object whose requirements are not met is not attached.                  *)
StageDefines(c, group) == GetDefineString(c, UNION {Imports[sh][c.text[sh]] : sh \in group})

StageObject(c, group) ==
  IF \E sh \in group : ~SupportsRequirements(c, Requires[sh]) THEN {}
  ELSE {[shader  |-> sh, defs |-> StageDefines(c, group),
         version |-> IF group = {sh} THEN c.pcs[<<sh, StageDefines(c, group)>>] ELSE c.text[sh]]
          : sh \in group}

ProgramImage(c, p) == UNION {StageObject(c, Group(c, p, stage)) : stage \in Stages}

(* PerContextProgram::mergeShadersForGLES compiles one object per stage.   *)
MergeStage(c, group) ==
  IF Cardinality(group) # 1 THEN c ELSE CompileShader(c, CHOOSE sh \in group : TRUE)

MergeShadersForGLES(c, p) ==
  MergeStage(MergeStage(c, Group(c, p, "vertex")), Group(c, p, "fragment"))

(* The attached objects a link can succeed with: one of each stage, none    *)
(* that failed to compile.                                                 *)
Linkable(objects) ==
  /\ \A stage \in Stages : \E o \in objects : StageOf[o.shader] = stage
  /\ \A o \in objects : <<o.shader, o.version>> \notin Broken

\* Faulty: what was uploaded before the link is still believed to be there.
LinkImageKeepingUniforms(c, key, objects) ==
  [c EXCEPT !.pcp[key] = [needsLink |-> FALSE, isLinked |-> Linkable(objects), image |-> objects,
                          uniforms  |-> [n \in DOMAIN @.uniforms |->
                                           [@.uniforms[n] EXCEPT !.value = None]]]]

(* PerContextProgram::linkProgram: detach what is no longer required,      *)
(* attach what is, link, and forget what was uploaded to the uniforms.     *)
LinkImage(c, key, objects) ==
  [c EXCEPT !.pcp[key] = [needsLink |-> FALSE, isLinked |-> Linkable(objects), image |-> objects,
                          uniforms  |-> NoUniforms(key[1])]]

LinkProgram(c, key) ==
  IF c.pcp[key].needsLink THEN LinkImage(c, key, ProgramImage(c, key[1])) ELSE c

(* Program::getPCP: the PCP of the current defines, made when it is new.   *)
PCPKey(c, p) == <<p, GetDefineString(c, c.defines[p])>>

NewPCP(c, key) ==
  IF key \in DOMAIN c.pcp THEN c
  ELSE [c EXCEPT !.pcp = [k \in DOMAIN @ \cup {key} |->
                            IF k # key THEN @[k]
                            ELSE [needsLink |-> TRUE, isLinked |-> FALSE,
                                  image |-> {}, uniforms |-> NoUniforms(key[1])]]]

MakePCP(c, p) == NewPCP(c, PCPKey(c, p))
GetPCP(c, p)  == MakePCP(UpdateCurrentDefines(c), p)

(* Program::compileGLObjects.                                              *)
CompilePCP(c, p) == LinkProgram(MergeShadersForGLES(c, p), PCPKey(c, p))
CompileProgram(c, p) == IF c.list[p] = {} THEN c ELSE CompilePCP(GetPCP(c, p), p)

(* Program::apply: no shaders, or a link that failed, leave OpenGL and      *)
(* State without a program.                                                *)
UseProgram(c, key)   == [c EXCEPT !.used = key, !.last = key]
UseIfLinked(c, key)  == UseProgram(c, IF c.pcp[key].isLinked THEN key ELSE None)
UseCompiled(c, p)    == UseIfLinked(IF c.pcp[PCPKey(c, p)].needsLink THEN CompileProgram(c, p) ELSE c,
                                    PCPKey(c, p))
ApplyProgram(c, p)   == IF c.list[p] = {} THEN UseProgram(c, None) ELSE UseCompiled(GetPCP(c, p), p)

(* Program::releaseGLObjects with those of its shaders.                    *)
ReleaseProgram(c, p) ==
  [c EXCEPT !.pcp = [k \in {k \in DOMAIN @ : k[1] # p} |-> @[k]],
            !.pcs = [k \in {k \in DOMAIN @ : k[1] \notin c.list[p]} |-> @[k]]]

(* PerContextProgram::apply(Uniform): upload unless this very object, as it *)
(* is now, was the last one uploaded to the location.                      *)
ApplyUniform(c, name, object, value) ==
  IF c.last = None THEN c
  ELSE IF name \notin ActiveIn[c.last[1]] THEN c
  ELSE LET e == c.pcp[c.last].uniforms[name]
       IN IF e.object = object /\ e.fresh THEN c
          ELSE [c EXCEPT !.pcp[c.last].uniforms[name] =
                           [object |-> object, fresh |-> TRUE, value |-> value]]

(* Uniform::set counts a modification: every program that holds the object's *)
(* value holds an old one.                                                 *)
Outdated(uniforms, object) ==
  [n \in DOMAIN uniforms |-> IF uniforms[n].object = object THEN [uniforms[n] EXCEPT !.fresh = FALSE]
                                                            ELSE uniforms[n]]

UniformModified(c, object) ==
  [c EXCEPT !.pcp = [k \in DOMAIN @ |-> [@[k] EXCEPT !.uniforms = Outdated(c.pcp[k].uniforms, object)]]]
=============================================================================
