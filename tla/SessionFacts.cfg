SPECIFICATION MCSpec
CONSTANTS
  agent = agent
  sub = sub
  leaf = leaf
  read = read
  post = post
  merge = merge
  api = api
  payroll = payroll
  none = none
  curl = curl
  sh = sh
  xargs = xargs
  timeout = timeout
  nice = nice
  env = env
  cd = cd
  five = five
  url = url
  home = home
  dashC = dashC
  version = version
  kill = kill
  odd = odd
  assign = assign
  Sessions = {agent, sub, leaf}
  Above <- Chain
  Batches <- SomeBatches
  NoUnit = none
  Rulebooks <- Books
  MaxPerKey = 2
  MaxRequests = 3
  MaxInFlight = 2
  MaxClock = 1
  Tools = {bash}
  Actions = {curl, sh, xargs, timeout, nice, env, cd, five, url, home}
  Targets <- FoldedLines
  Folded <- SameCase
  AnyTarget = AnyTarget
  Somewhere = Somewhere
  Unknown = Unknown
  Vocabulary <- NoVocabulary
  Bash = bash
  Tokens = {curl, sh, xargs, timeout, nice, env, cd, five, url, home, dashC, version, kill, odd, assign}
  Flags = {dashC, version, kill, odd}
  Assignments = {assign}
  Env = env
  Wrappers <- Options
  Shells = {sh}
  AlwaysRefuse = {xargs}
  Mutators = {cd, env}
  CodeFlag = dashC
  PrintFlag = version
  MaxWrapperDepth = 2
  Lines <- SomeLines
  Asks <- Askers
  Ttl = 2
  IdleTimeout = 1
  Grace = 1
  MinTimeout = 1
  MaxTimeout = 2
  HostTimeout = 3
CHECK_DEADLOCK FALSE
INVARIANT NamesWhatRuns
INVARIANT UnknownProvesNothing
INVARIANT HookFailsClosed
INVARIANT SessionsAreGated
