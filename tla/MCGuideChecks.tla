---------------------------- MODULE MCGuideChecks ----------------------------
EXTENDS GuideChecks
Fenced(m, n, after, in) ==
    [kind |-> "fence", indented |-> in, mark |-> m, length |-> n, info |-> after]
Line(k, in) == [kind |-> k, indented |-> in, mark |-> "none", length |-> 0, info |-> "none"]

MCLines ==
    {Line(k, "no") : k \in {"text", "note", "blank", "row", "title", "other"}}
        \cup {Line("title", "yes")}
        \cup {Fenced("backtick", 3, after, "no") : after \in {"", "json", "bash", "words", "tick"}}
        \cup {Fenced("backtick", 3, after, "yes") : after \in {"", "json"}}
        \cup {Fenced("backtick", 4, after, "no") : after \in {"", "json"}}
        \cup {Fenced("tilde", 3, "", "no")}

Block(n) == <<"title", n>>
MCJobs == <<
    [block |-> Block(0), reads |-> {}, prints |-> NoRef, stub |-> "requests", redirects |-> "yes",
     leaves |-> {"attached", "detached"}],
    [block |-> Block(0), reads |-> {Block(0)}, prints |-> NoRef, stub |-> "fetch", redirects |-> "no",
     leaves |-> {}],
    [block |-> Block(0), reads |-> {}, prints |-> Block(1), stub |-> "curl", redirects |-> "no",
     leaves |-> {}]>>
=============================================================================
