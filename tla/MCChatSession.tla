--------------------------- MODULE MCChatSession ---------------------------
(* One URL, one evidence output, one local file, and a line for each way   *)
(* the recognisers tell lines apart.                                       *)
EXTENDS ChatSession

Line(url, path, words) == [url |-> url, path |-> path, words |-> words]

(* Answers to prompts, questions, requests about an answer, other talk. *)
Spoken ==
    {{"yes"}, {"one"}, {"two"}, {"no"}, {"other"}, {"pronoun"}, {"transform"},
     {"ask", "target"}, {"ask", "material"}, {"transform", "material"},
     {"recap"}, {"lookup"}, {"review", "material"}}

MCLines ==
    {Line(None, None, w) : w \in Spoken}
    \union {Line(u, None, w) : u \in Urls, w \in {{}, {"other"}, {"ask", "target"},
                                                  {"transform"}}}
    \union {Line(None, f, w) : f \in Files, w \in {{}, {"review"}}}
    \union {Line(None, f, {"ask"}) : f \in Locals}

(* The default live profile, a run that stays local, a missing approval,   *)
(* an option of a live run without its approval.                           *)
MCProfiles == {ChatArgs, Approvals, Approvals \ {"audit_ref"}, Approvals \union {"live_option"}}
=============================================================================
