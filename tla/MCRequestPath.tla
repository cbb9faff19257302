---------------------------- MODULE MCRequestPath ----------------------------
(* RequestPath for TLC, and its pure parts over bounded inputs.              *)
EXTENDS RequestPath, TLC

MCNames == {"/", "/a.js", "/a.js.br", "/a.js/index.html", "/ln", "/ln.br", "/x.php", "/index.php",
            "/index.html", "/none", "/.env", "/.git"}
MCTargets == {"/", "/./a.js", "/ln", "/x.php", "/.env", "/.git", "/%2541", "/old", "/new"}

MCNormalized ==
  [t \in MCTargets |-> CASE t \in {"/./a.js", "/old", "/new"} -> "/a.js"
                         [] t = "/%2541" -> "rejected"
                         [] OTHER -> t]

MCEntries == <<"/index.php">>
MCIndex == [n \in MCNames |-> IF n = "/a.js" THEN "/a.js/index.html" ELSE "/index.html"]
MCSibling == [n \in MCNames |-> CASE n = "/a.js" -> "/a.js.br" [] n = "/ln" -> "/ln.br" [] OTHER -> "/none"]

\* The second release drops the front controller, the index and a precompressed
\* file, makes a file of the link and a directory of the script.
File(names) == [n \in MCNames |-> IF n \in names THEN "file" ELSE IF n = "/" THEN "dir" ELSE "none"]
MCTree ==
  << [File({"/a.js", "/a.js.br", "/x.php", "/index.php", "/index.html", "/.env", "/.git"})
        EXCEPT !["/ln"] = "/a.js", !["/ln.br"] = "/a.js.br"],
     [File({"/a.js", "/a.js.br", "/ln", "/.env", "/.git"}) EXCEPT !["/x.php"] = "dir"] >>

\* The last one leads from a protected path to a file that is not.
MCRoutes == << [targets |-> {"/new"}, kind |-> "redirect", to |-> "/./a.js"],
               [targets |-> {"/new", "/old"}, kind |-> "rewrite", to |-> "unchanged"],
               [targets |-> {"/.git"}, kind |-> "rewrite", to |-> "/a.js"] >>

Rule(mode, priority, conditions, exclusions) ==
  [mode |-> mode, priority |-> priority, conditions |-> conditions, exclusions |-> exclusions]

MCRules == << Rule("deny", 10, {[test |-> "/.env", negate |-> FALSE]}, {"local"}) >>
MCTests == [t \in MCTargets |-> {t}]

MCSetups == [precompressed : BOOLEAN,
             validators : {{"If-None-Match"}, {"If-Modified-Since"}, {"If-None-Match", "If-Modified-Since"},
                           {"If-Match"}}]

-----------------------------------------------------------------------------
(* The pure parts: a sample is a path or a list of rules, in a state of its  *)
(* own from which no request starts.                                         *)

VARIABLE sample

Plain == [kind |-> "none", of |-> <<>>]

Texts == {<<"/">> \o text : text \in BoundedSeq(Tokens \ {"3f", "5c", "\\"}, 4)}

Scopes == {[conditions |-> {}, exclusions |-> {}], [conditions |-> {}, exclusions |-> {"q"}]} \cup
          {[conditions |-> {[test |-> "p", negate |-> negate]}, exclusions |-> {}] : negate \in BOOLEAN}
Rulings == {Rule(mode, priority, scope.conditions, scope.exclusions) :
              mode \in {"allow", "deny", "observe"}, priority \in {1, 2}, scope \in Scopes}

MCInit ==
  /\ Init
  /\ \/ sample = Plain
     \/ /\ php /\ setup = CHOOSE s \in Setups : TRUE
        /\ target = [c \in Clients |-> "/"]
        /\ \/ \E text \in Texts : sample = [kind |-> "path", of |-> text]
           \/ \E rules \in BoundedSeq(Rulings, 3) : sample = [kind |-> "rules", of |-> rules]

MCNext == sample = Plain /\ Next /\ UNCHANGED sample

MCSpec == MCInit /\ [][MCNext]_<<vars, sample>>

\* What ParsePath lets through is in normal form, and a path in normal form is
\* let through as it is: parsing twice is parsing once (ParsePath).
PathsNormal ==
  sample.kind = "path" =>
    /\ ParsePath(sample.of) # Bad => Normal(ParsePath(sample.of))
    /\ Normal(sample.of) => ParsePath(sample.of) = sample.of

\* Rules added in any order come to the same verdict, and to the right one
\* (AddRule, EvaluateRule).
Decided ==
  sample.kind = "rules" =>
    \A tests \in SUBSET {"p", "q"} : EvaluateRule(Engine(sample.of), tests) = Verdict(sample.of, tests)
=============================================================================
