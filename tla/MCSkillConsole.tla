--------------------------- MODULE MCSkillConsole ---------------------------
(* Instances of SkillConsole for TLC. *)
EXTENDS SkillConsole

CONSTANTS k1, k2, k3, o1, o2

Entry(dir, file, data) == [dir |-> dir, file |-> file, size |-> 1, link |-> FALSE, data |-> data]

MCSeed == [name |-> "a", body |-> "b1", extra |-> {}]

(* The seed's own file with a supporting file, a new Skill, two SKILL.md.  *)
MCUploads ==
    { [kind |-> "zip", entries |-> {Entry("a", "SKILL.md", [name |-> "a", body |-> "b1"]),
                                    Entry("a", "x", "x1")}],
      [kind |-> "md", entries |-> {Entry(".", "SKILL.md", [name |-> "c", body |-> "b1"])}],
      [kind |-> "zip", entries |-> {Entry("a", "SKILL.md", [name |-> "a", body |-> "b2"]),
                                    Entry(".", "SKILL.md", [name |-> "c", body |-> "b2"])}] }

(* The seed's name with other instructions, and the seed as it was.        *)
MCEdits == { [name |-> "a", body |-> "b2"], [name |-> "a", body |-> "b1"],
             [name |-> "c", body |-> "b1"] }

MCScenarios ==
    { [console |-> {k1}, clients |-> {k3}, requests |-> {"update", "delete", "replace"},
       operations |-> {}, restarts |-> 0],
      [console |-> {}, clients |-> {k1, k2, k3}, requests |-> {"create", "update"},
       operations |-> {}, restarts |-> 0],
      [console |-> {}, clients |-> {k1, k2}, requests |-> {"create", "update", "delete", "replace"},
       operations |-> {}, restarts |-> 1],
      [console |-> {}, clients |-> {k1}, requests |-> {"create", "update", "delete"},
       operations |-> {o1}, restarts |-> 1],
      [console |-> {}, clients |-> {}, requests |-> {},
       operations |-> {o1, o2}, restarts |-> 1] }
=============================================================================
