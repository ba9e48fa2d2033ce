SPECIFICATION MCSpec
CONSTANTS
  Calls = {c1}
  Wirings = {"pass_through", "fail_closed", "fail_open"}
  Names <- MCNames
  Claims <- MCClaims
  Nobody = Nobody
INVARIANTS TypeOK NothingRunsUnauthorized PolicyIsAskedAboutTheCall
