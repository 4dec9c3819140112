SPECIFICATION Spec
CONSTANTS
  h1 = h1
  h2 = h2
  Nobody = Nobody
  Hosts <- MCHosts
  MAX_PEERS = 2
  SAMPLES_IN_BUFFER = 2
  MAX_TICKS = 2
INVARIANTS TypeOK NeverSilent KnownHostsAdmitted DirectedAtBonded OneBond NoFault AdcRefusedOnlyWhenLate
PROPERTIES SleepsOnlyAfterSlow FindsHostOrSleeps Measures
CHECK_DEADLOCK FALSE
