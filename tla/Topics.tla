-------------------------------- MODULE Topics --------------------------------
(***************************************************************************)
(* MQTT topics and filters (topics.py): a topic is a sequence of levels, a *)
(* filter one of levels and the wildcards "+" and "#".                     *)
(***************************************************************************)
EXTENDS Naturals, Sequences

CONSTANTS
  Levels,   \* levels of a topic
  Dollar    \* the levels that start with $

ASSUME LevelsAssumption == Dollar \subseteq Levels /\ {"+", "#"} \cap Levels = {}

\* check_filter(): "#" only as the last level; "+" and "#" are whole levels here.
IsFilter(f) ==
  /\ f \in Seq(Levels \cup {"+", "#"}) /\ f # <<>>
  /\ \A i \in DOMAIN f : f[i] = "#" => i = Len(f)

\* check_topic(): no wildcards, and the topics of the broker are not for others.
IsTopic(t) == t # <<>> /\ t \in Seq(Levels) /\ Head(t) \notin Dollar

Fits(level, name) == level = "+" \/ level = name
OnBroker(f, t) == Head(t) \in Dollar /\ Head(f) \in {"+", "#"}

\* matches(): level by level until a "#", or to the end of both.  A defect to test the
\* properties with: a "#" needs a level of the topic.
MatchesBelow(f, t) ==
  /\ ~OnBroker(f, t)
  /\ \/ /\ Len(f) = Len(t)
        /\ \A i \in DOMAIN f : Fits(f[i], t[i])
     \/ \E n \in DOMAIN f :
          /\ f[n] = "#" /\ n <= Len(t)
          /\ \A i \in 1 .. n - 1 : Fits(f[i], t[i])

Matches(f, t) ==
  /\ ~OnBroker(f, t)
  /\ \/ /\ Len(f) = Len(t)
        /\ \A i \in DOMAIN f : Fits(f[i], t[i])
     \/ \E n \in DOMAIN f :
          /\ f[n] = "#" /\ n <= Len(t) + 1
          /\ \A i \in 1 .. n - 1 : Fits(f[i], t[i])

-----------------------------------------------------------------------------
(* What MQTT 3.1.1, section 4.7, says of a filter: the topics it stands for *)

\* The topics of at most n levels: each "+" is one level, a "#" any number of them, none too.
Covered(f, n) ==
  LET last == Len(f)
      Plain(g) == {t \in [DOMAIN g -> Levels] : \A i \in DOMAIN g : g[i] # "+" => t[i] = g[i]}
      Rest == UNION {[1 .. m -> Levels] : m \in 0 .. n}
      all == IF f[last] = "#"
             THEN {t \o rest : t \in Plain(SubSeq(f, 1, last - 1)), rest \in Rest}
             ELSE Plain(f)
  IN {t \in all : Len(t) \in 1 .. n /\ (Head(t) \in Dollar => Head(f) = Head(t))}
=============================================================================
