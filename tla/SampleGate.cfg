\* One interruption against the clarification gate.
CONSTANTS
  None = None
  Campaign = campaign
  Kernels = {campaign}
  Gate = gate_unit
  Geometry = geometry_unit
  Units = {gate_unit, geometry_unit}
  Contract = contract1
  Contracts = {contract1}
  Plan = plan1
  Plans = {plan1}
  Evidence = evidence
  Feedback = feedback
  Resolved = resolved
  Responses = {response1, response2}
  candidate1 = candidate1
  candidate2 = candidate2
  Candidates <- MCCandidates
  Artifacts = {evidence, feedback, resolved, response1, response2, candidate1, candidate2}
  DesignEvidence = design_evidence
  HumanFeedback = human_feedback
  ClarificationResponse = clarification_response
  CadModel = cad_model
  Kinds = {design_evidence, human_feedback, clarification_response, cad_model}
  Operations = {}
  InputRequirements <- MCInputs
  OutputRequirements <- MCOutputs
  AttemptLimits = {2}
  AttemptCap = 2
  OperationAttemptCap = 0
  MayRaise = {}
  CrashCap = 1
  InterventionCap = 0
SPECIFICATION SampleSpec
INVARIANT AttachedResponseResumes
CHECK_DEADLOCK FALSE
