------------------------------ MODULE MCRollout ------------------------------
(* Instances of Rollout: contents named by the objects they hold. *)
EXTENDS Rollout

CONSTANTS x, y, z   \* objects

(* Every content is the same one object. *)
OneObject == [c \in Contents |-> <<{x}>>]
(* Over two objects: image A has a second phase that image B lacks. *)
Shifting ==
  [c \in Contents |-> IF c.image = "A" THEN IF c.config = "c" THEN <<{x}, {y}>> ELSE <<{y}, {x}>>
                      ELSE <<{x}>>]
(* Configs that drop one object and add another. *)
Growing == [c \in Contents |-> CASE c.config = "c" -> <<{x, y}>>
                                 [] c.config = "d" -> <<{x}>>
                                 [] c.config = "e" -> <<{x}, {z}>>]
(* Configs over different objects. *)
Disjoint == [c \in Contents |-> IF c.config = "c" THEN <<{x}>> ELSE <<{y}>>]
(* The second config keeps only the last object of the first. *)
Shrinking == [c \in Contents |-> IF c.config = "c" THEN <<{x}, {y}, {z}>> ELSE <<{z}>>]
=============================================================================
