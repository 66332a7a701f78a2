--------------------------------- MODULE Skills ---------------------------------
(***************************************************************************)
(* pycodex/core/skills: which SKILL.md files become skills, which skill a  *)
(* $name in a text means, and the messages injected for it.  Nothing here  *)
(* has state; SkillTurn says when each is evaluated and on which files.    *)
(*                                                                         *)
(* A text is the sequence of the $names in it, each inside or outside of   *)
(* code.  The frontmatter of a file is what the parser makes of it.        *)
(***************************************************************************)
EXTENDS Integers, Sequences, SequencesExt, FiniteSets

CONSTANTS
  Names,  \* names a skill or a mention can have
  Paths,  \* canonical paths of SKILL.md files
  Dirs,   \* directories that can be skill roots
  Under   \* the paths a scan of each directory finds, in its order

ASSUME SkillsAssumption ==
  /\ Paths \subseteq Nat \ {0}
  /\ Under \in [Dirs -> Seq(Paths)]

(* off is disable-model-invocation; needs: an environment variable that is *)
(* not set is among the dependencies.  A malformed file fails to parse, a  *)
(* binary one is not UTF-8, which neither reader of the file catches.      *)
File ==
  [state : {"good"}, name : Names, off : BOOLEAN, needs : BOOLEAN]
  \union [state : {"absent", "malformed", "binary"}]

(* Roots of each scope that exist.                                         *)
Layout == [repo : Seq(Dirs), user : Seq(Dirs), system : Seq(Dirs)]

Occurrence == [name : Names, code : BOOLEAN]

(* An injected message: path 0 where no file was resolved, reason "none"   *)
(* for the skill itself.                                                   *)
Message ==
  [name : Names, path : Paths \union {0},
   reason : {"none", "ambiguous", "not_found", "env", "gone"}]

-------------------------------------------------------------------------------
(* The elements of s that are in S, in their order.                        *)
Only(s, S) ==
  LET Pick(t, x) == IF x \in S THEN Append(t, x) ELSE t
  IN  FoldLeft(Pick, <<>>, s)

-------------------------------------------------------------------------------
(* Discovery.                                                              *)

(* collect_skill_roots: in order of precedence, each directory once.       *)
Roots(layout) ==
  LET In(scope) == [i \in DOMAIN layout[scope] |-> [dir |-> layout[scope][i], scope |-> scope]]
      Once(roots, r) ==
        IF \E i \in DOMAIN roots : roots[i].dir = r.dir THEN roots ELSE Append(roots, r)
  IN  FoldLeft(Once, <<>>, In("repo") \o In("user") \o In("system"))

(* The scan of all roots, in its order: where files can be, each with the  *)
(* scope of the root it is under.  Where there is none now, none is found. *)
Scan(layout) ==
  LET Tagged(r) == [i \in DOMAIN Under[r.dir] |-> [path |-> Under[r.dir][i], scope |-> r.scope]]
      roots == Roots(layout)
  IN  FlattenSeq([i \in DOMAIN roots |-> Tagged(roots[i])])

(* discover_skills gets to its end.                                        *)
Discoverable(layout, disk) ==
  \A f \in ToSet(Scan(layout)) : disk[f.path].state # "binary"

(* Faulty variant of Keep: the first file of a name is kept, whatever the  *)
(* scope of the second.                                                    *)
KeepFirst(found, skill) ==
  IF \E k \in found.kept : k.name = skill.name THEN found
  ELSE [found EXCEPT !.kept = @ \union {skill}]

(* A file that parses: kept if its name is new, ambiguous with one kept    *)
(* from the same scope, shadowed by one of a higher scope.                 *)
Keep(found, skill) ==
  LET same == {k \in found.kept : k.name = skill.name}
  IN  IF same = {} THEN [found EXCEPT !.kept = @ \union {skill}]
      ELSE IF \E k \in same : k.scope = skill.scope
      THEN [found EXCEPT !.ambiguous = @ \union {skill.name}]
      ELSE found

(* discover_skills over the files found: a path seen before is skipped,    *)
(* parsed or not.                                                          *)
Discover(layout, disk) ==
  LET Visit(found, f) ==
        LET file == disk[f.path]
            seen == [found EXCEPT !.paths = @ \union {f.path}]
        IN  IF file.state = "absent" \/ f.path \in found.paths THEN found
            ELSE IF file.state = "malformed" THEN seen
            ELSE Keep(seen, [name |-> file.name, path |-> f.path, scope |-> f.scope,
                             off |-> file.off, needs |-> file.needs])
  IN  FoldLeft(Visit, [paths |-> {}, kept |-> {}, ambiguous |-> {}], Scan(layout))

(* _build_registry: ambiguous names are not in the index by name.          *)
Registry(layout, disk) ==
  LET found == Discover(layout, disk)
  IN  [byName |-> {k \in found.kept : k.name \notin found.ambiguous},
       ambiguous |-> found.ambiguous]

Entry(registry, n) == {k \in registry.byName : k.name = n}

(* is_model_invocation_disabled.                                           *)
Disabled(registry, n) == \E k \in Entry(registry, n) : k.off

-------------------------------------------------------------------------------
(* Mentions and what is injected for them.                                 *)

(* extract_skill_mentions: names outside of code, each once.               *)
Mentions(text) ==
  LET Once(ms, o) == IF o.code \/ o.name \in ToSet(ms) THEN ms ELSE Append(ms, o.name)
  IN  FoldLeft(Once, <<>>, text)

(* What one mention resolves to; files are read now, not at discovery.     *)
MessageFor(registry, disk, n) ==
  LET Msg(path, reason) == [name |-> n, path |-> path, reason |-> reason]
  IN  IF n \in registry.ambiguous THEN Msg(0, "ambiguous")
      ELSE IF Entry(registry, n) = {} THEN Msg(0, "not_found")
      ELSE LET k == CHOOSE e \in Entry(registry, n) : TRUE
           IN  IF k.needs THEN Msg(k.path, "env")
               ELSE IF disk[k.path].state = "absent" THEN Msg(k.path, "gone")
               ELSE Msg(k.path, "none")

(* build_skill_injection_plan raises: a skill's text is not UTF-8.         *)
PlanRaises(registry, disk, names) ==
  \E i \in DOMAIN names :
    LET m == MessageFor(registry, disk, names[i])
    IN  m.reason = "none" /\ disk[m.path].state = "binary"

(* build_skill_injection_plan: unresolved names, then skills that cannot   *)
(* be had, then skills.                                                    *)
InjectionPlan(registry, disk, names) ==
  LET all == [i \in DOMAIN names |-> MessageFor(registry, disk, names[i])]
      messages == ToSet(all)
  IN  Only(all, {m \in messages : m.path = 0})
      \o Only(all, {m \in messages : m.path # 0 /\ m.reason # "none"})
      \o Only(all, {m \in messages : m.reason = "none"})

-------------------------------------------------------------------------------
(* What discovery is for: the reference the properties use.                *)

Rank(scope) == CASE scope = "repo" -> 1 [] scope = "user" -> 2 [] scope = "system" -> 3

(* The scope of a file is that of the first root it is found under.        *)
ScopeOf(layout, p) ==
  LET scan == Scan(layout)
  IN  scan[SelectInSeq(scan, LAMBDA f : f.path = p)].scope

(* The files that n can mean: those of the highest scope that has any.     *)
Candidates(layout, disk, n) ==
  LET all == {p \in {f.path : f \in ToSet(Scan(layout))} :
                disk[p].state = "good" /\ disk[p].name = n}
      R(p) == Rank(ScopeOf(layout, p))
  IN  {p \in all : \A q \in all : R(p) <= R(q)}
===============================================================================
