--------------------------- MODULE MCMergeTracking ---------------------------
(* The configurations of the MergeTracking runs. *)
EXTENDS MergeTracking

Off == [merge |-> FALSE, autoMerge |-> FALSE, update |-> FALSE, resolve |-> FALSE,
        watchOnly |-> FALSE, queue |-> FALSE, linear |-> FALSE,
        statuses |-> {"pending", "clean"}, commits |-> 2]

\* Auto-merge, and a direct merge when GitHub does not merge; either alone.
MergeConfig == [Off EXCEPT !.merge = TRUE, !.autoMerge = TRUE]
ArmConfig   == [Off EXCEPT !.autoMerge = TRUE, !.queue = TRUE,
                           !.statuses = {"pending", "clean", "unknown"}]
DirectConfig == [Off EXCEPT !.merge = TRUE, !.statuses = {"pending", "clean", "draft"}]

\* The branch brought up to date: on GitHub, rebased locally, or by the agent.
UpdateConfig == [Off EXCEPT !.update = TRUE, !.statuses = {"pending", "behind"}]
LinearConfig == [UpdateConfig EXCEPT !.linear = TRUE]
ResolveConfig == [Off EXCEPT !.resolve = TRUE,
                             !.statuses = {"pending", "conflicts"}]
WatchConfig == [Off EXCEPT !.watchOnly = TRUE, !.merge = TRUE]

MCConfigs == {MergeConfig, ArmConfig, DirectConfig, UpdateConfig, LinearConfig,
              ResolveConfig, WatchConfig}

\* For the run of the late dry run.
DirectOnly == {DirectConfig}
=============================================================================
