---------------------------- MODULE MCToolbox ----------------------------
(* TLC instances of Toolbox: two jobs and one order of every sort. *)
EXTENDS Toolbox

CONSTANTS j1, j2

MCDisk == [file |-> {<<"a", "b", "b">>}, env |-> {}, head |-> {<<"a", "b", "b">>}]

Order(tool, kind, confirm) ==
    [tool |-> tool, kind |-> kind, confirm |-> confirm, complete |-> TRUE, write |-> TRUE,
     server |-> TRUE, plans |-> FALSE, path |-> "inside", large |-> FALSE, content |-> <<"c">>, key |-> "k", mode |-> "run",
     patch |-> [operation |-> "replace", target |-> "a", replacement |-> <<"c">>]]

Every ==
    { Order("run_command", "inspect", TRUE), Order("run_command", "inspect", FALSE),
      Order("run_command", "redirect", FALSE), Order("deploy_app", "redirect", FALSE),
      Order("run_command", "remove", TRUE), Order("deploy_app", "restart", FALSE),
      Order("run_command", "probe", TRUE),
      Order("read_logs", "path", FALSE), Order("nonsense", "", FALSE),
      Order("write_file", "", FALSE), [Order("write_file", "", FALSE) EXCEPT !.write = FALSE],
      Order("patch_file", "", FALSE),
      [Order("patch_file", "", FALSE) EXCEPT !.patch.target = "b"],
      Order("config_set", "", FALSE),
      [Order("write_secret", "", FALSE) EXCEPT !.key = "l"],
      Order("git_status", "", FALSE), Order("git_commit", "", FALSE),
      Order("git_restore", "", FALSE), Order("git_reset", "hard", FALSE),
      Order("git_reset", "odd", FALSE), Order("git_clean", "force", FALSE),
      Order("github_pull", "ssh", FALSE), Order("github_push", "app", FALSE),
      [Order("github_push", "app", FALSE) EXCEPT !.write = FALSE],
      [Order("check_disk", "", FALSE) EXCEPT !.server = FALSE],
      Order("program", "", FALSE),
      [Order("program", "", FALSE) EXCEPT !.mode = "launch", !.content = <<"d">>],
      [Order("program", "", FALSE) EXCEPT !.mode = "launch", !.large = TRUE],
      Order("read_file", "", FALSE), Order("list_files", "", FALSE),
      Order("list_processes", "", FALSE), Order("github_pull", "odd", FALSE),
      [Order("config_set", "", FALSE) EXCEPT !.key = "PATH"],
      [Order("program", "", FALSE) EXCEPT !.path = "outside"],
      [Order("check_memory", "", FALSE) EXCEPT !.path = "outside"],
      [Order("write_file", "", FALSE) EXCEPT !.path = "link"],
      [Order("program", "", FALSE) EXCEPT !.mode = "launch", !.path = "link"],
      [Order("write_file", "", FALSE) EXCEPT !.plans = TRUE] }

(* The second job may be in the way of the first in every place. *)
MCOrders == [j \in {j1, j2} |-> IF j = j1 THEN Every ELSE
    {o \in Every : o.tool \in WriteTools}]
============================================================================
